---- MODULE Spec2Model ----
(***************************************************************************)
(* A model of the password manager: the record cipher                      *)
(* (app/crypto/crypto_utils.py), the vault file and the handlers of the    *)
(* Textual application (app/ui/main_ui.py), the legacy Fernet variant      *)
(* (app/ui.py, app/storage.py, app/crypto_utils.py), and the identity      *)
(* files and the transfer of one entry between peers (app/p2p/p2p.py).     *)
(*                                                                         *)
(* Specifications: SpecCipher (the cipher on bounded inputs), Spec (both   *)
(* programs, with kills), SpecLifecycle and SpecVaultFile (one main_ui     *)
(* process), SpecConfirm (a screen that also mounts the #confirm button),  *)
(* SpecRace (two processes saving), SpecP2P (a receiver and its peers) and *)
(* SpecProvision (two processes creating the identity files).              *)
(*                                                                         *)
(* A Python str is a sequence of code points, a bytes object a sequence of *)
(* numbers in 0..255.  An operation that may raise returns a record        *)
(* [err, val]: err = "" on a normal return, the exception's name otherwise.*)
(***************************************************************************)
EXTENDS Integers, Sequences, FiniteSets, TLC

Ok(v) == [err |-> "", val |-> v]

Raise(e) == [err |-> e, val |-> <<>>]

IsOk(r) == r.err = ""

(***************************************************************************)
(* Bounds of the model.                                                    *)
(***************************************************************************)
\* the largest number of elements a vault file holds in the model
MaxRecords == 2

(***************************************************************************)
(* Program constants.                                                      *)
(***************************************************************************)
SALT_LEN == 16

NONCE_LEN == 12

KEY_LEN == 32

\* AESGCM appends a 128-bit tag to the ciphertext
TAG_LEN == 16

MIN_MASTER_LEN == 8

(***************************************************************************)
(* Let(e, Body) is Body(e) with e evaluated once, before Body: every       *)
(* intermediate result below is named this way.                            *)
(***************************************************************************)
Let(e, Body(_)) == CHOOSE r \in {Body(x) : x \in {e}} : TRUE

(***************************************************************************)
(* A loop over the positions lo..hi of a sequence, carrying a state; the   *)
(* range is halved so that the evaluation stays shallow.                   *)
(***************************************************************************)
RECURSIVE FoldRange(_, _, _, _)
FoldRange(Step(_, _), lo, hi, st) ==
    IF lo > hi THEN st
    ELSE IF lo = hi THEN Step(st, lo)
    ELSE Let((lo + hi) \div 2, LAMBDA mid :
         Let(FoldRange(Step, lo, mid, st), LAMBDA st1 :
             FoldRange(Step, mid + 1, hi, st1)))

\* the sequence <<F(1), ..., F(n)>>
MapRange(F(_), n) == FoldRange(LAMBDA out, i : Append(out, F(i)), 1, n, <<>>)

(***************************************************************************)
(* Arithmetic on bytes.                                                    *)
(***************************************************************************)
Sum(b) ==
    Let(b, LAMBDA x : FoldRange(LAMBDA acc, i : acc + x[i], 1, Len(x), 0))

\* the position-weighted sum of a byte string
WSum(b) ==
    Let(b, LAMBDA x : FoldRange(LAMBDA acc, i : acc + i * x[i], 1, Len(x), 0))

Pow2(k) == CASE k = 0 -> 1 [] k = 1 -> 2 [] k = 2 -> 4 [] k = 3 -> 8
             [] k = 4 -> 16 [] k = 5 -> 32 [] k = 6 -> 64 [] OTHER -> 128

\* x with bit k (0..7) inverted
FlipBit(x, k) == IF (x \div Pow2(k)) % 2 = 1 THEN x - Pow2(k) ELSE x + Pow2(k)

(***************************************************************************)
(* str.encode() and bytes.decode(): UTF-8, for code points below 2048.     *)
(***************************************************************************)
\* A text of ASCII characters is its own encoding, and the other way round.
str_encode(s) ==
    Let(s, LAMBDA x :
        IF \A i \in 1..Len(x) : x[i] < 128 THEN x
        ELSE
        FoldRange(LAMBDA out, i :
                     IF x[i] < 128 THEN Append(out, x[i])
                     ELSE out \o <<192 + (x[i] \div 64), 128 + (x[i] % 64)>>,
                  1, Len(x), <<>>))

\* one byte of the decoder: lead is the first byte of a two-byte sequence
\* that waits for its second byte, 0 when none does
bytes_decode_step(st, c) ==
    IF st.err # "" THEN st
    ELSE IF st.lead # 0 THEN
        IF c >= 128 /\ c <= 191
        THEN [st EXCEPT !.lead = 0,
                        !.val = Append(@, (st.lead - 192) * 64 + (c - 128))]
        ELSE [st EXCEPT !.err = "UnicodeDecodeError"]
    ELSE IF c < 128 THEN [st EXCEPT !.val = Append(@, c)]
    ELSE IF c >= 194 /\ c <= 223 THEN [st EXCEPT !.lead = c]
    ELSE [st EXCEPT !.err = "UnicodeDecodeError"]

bytes_decode(b) ==
    Let(Let(b, LAMBDA y :
            IF \A i \in 1..Len(y) : y[i] < 128
            THEN [err |-> "", lead |-> 0, val |-> y]
            ELSE
            FoldRange(LAMBDA x, i : bytes_decode_step(x, y[i]), 1, Len(y),
                      [err |-> "", lead |-> 0, val |-> <<>>])),
        LAMBDA st : IF st.err # "" \/ st.lead # 0
                    THEN Raise("UnicodeDecodeError")
                    ELSE Ok(st.val))

(***************************************************************************)
(* base64.urlsafe_b64encode / urlsafe_b64decode.  The text is ASCII:       *)
(* 'A'..'Z' = 65..90, 'a'..'z' = 97..122, '0'..'9' = 48..57, '-' = 45,     *)
(* '_' = 95, '=' = 61.                                                     *)
(***************************************************************************)
B64Char(v) == IF v < 26 THEN 65 + v
              ELSE IF v < 52 THEN 97 + (v - 26)
              ELSE IF v < 62 THEN 48 + (v - 52)
              ELSE IF v = 62 THEN 45 ELSE 95

\* the four characters of the group of up to three bytes that starts at b[i]
b64encode_group(b, i) ==
    IF Len(b) - i + 1 = 1 THEN
        <<B64Char(b[i] \div 4), B64Char((b[i] % 4) * 16), 61, 61>>
    ELSE IF Len(b) - i + 1 = 2 THEN
        <<B64Char(b[i] \div 4),
          B64Char((b[i] % 4) * 16 + (b[i + 1] \div 16)),
          B64Char((b[i + 1] % 16) * 4), 61>>
    ELSE
        <<B64Char(b[i] \div 4),
          B64Char((b[i] % 4) * 16 + (b[i + 1] \div 16)),
          B64Char((b[i + 1] % 16) * 4 + (b[i + 2] \div 64)),
          B64Char(b[i + 2] % 64)>>

urlsafe_b64encode(b) ==
    Let(b, LAMBDA x :
        FoldRange(LAMBDA out, g : out \o b64encode_group(x, 3 * g - 2),
                  1, (Len(x) + 2) \div 3, <<>>))

\* The value of a character of the alphabet, 64 for any other character.
\* urlsafe_b64decode translates '-' and '_' to '+' and '/' and leaves '+'
\* (43) and '/' (47) as they are, so both spellings decode.
B64Value(c) == IF c >= 65 /\ c <= 90 THEN c - 65
               ELSE IF c >= 97 /\ c <= 122 THEN c - 71
               ELSE IF c >= 48 /\ c <= 57 THEN c + 4
               ELSE IF c = 45 \/ c = 43 THEN 62
               ELSE IF c = 95 \/ c = 47 THEN 63
               ELSE 64

\* One character of binascii.a2b_base64 without strict mode: a character
\* outside the alphabet is skipped, the bits left over in the last
\* character are dropped, and a completed padding ends the scan (done).
a2b_base64_step(st, c) ==
    IF st.done THEN st
    ELSE IF c = 61 THEN
        IF st.quad >= 2 /\ st.quad + st.pads + 1 >= 4
        THEN [st EXCEPT !.done = TRUE]
        ELSE IF st.quad >= 2 THEN [st EXCEPT !.pads = @ + 1]
        ELSE st
    ELSE Let(B64Value(c), LAMBDA v :
        IF v = 64 THEN st
        ELSE IF st.quad = 0 THEN
            [st EXCEPT !.quad = 1, !.left = v, !.pads = 0]
        ELSE IF st.quad = 1 THEN
            [st EXCEPT !.quad = 2, !.left = v % 16, !.pads = 0,
                       !.out = Append(@, st.left * 4 + (v \div 16))]
        ELSE IF st.quad = 2 THEN
            [st EXCEPT !.quad = 3, !.left = v % 4, !.pads = 0,
                       !.out = Append(@, st.left * 16 + (v \div 4))]
        ELSE [st EXCEPT !.quad = 0, !.left = 0, !.pads = 0,
                        !.out = Append(@, st.left * 64 + v)])

a2b_base64(s) ==
    Let(Let(s, LAMBDA y :
            FoldRange(LAMBDA x, i : a2b_base64_step(x, y[i]), 1, Len(y),
                      [quad |-> 0, left |-> 0, pads |-> 0, out |-> <<>>,
                       done |-> FALSE])),
        LAMBDA st : IF st.done \/ st.quad = 0 THEN Ok(st.out)
                    ELSE Raise("binascii.Error"))

\* a str argument is first encoded as ASCII, which raises ValueError
urlsafe_b64decode(s) ==
    Let(s, LAMBDA x :
        IF \E i \in 1..Len(x) : x[i] > 127 THEN Raise("ValueError")
        ELSE a2b_base64(x))

(***************************************************************************)
(* The library primitives.  PBKDF2-HMAC-SHA256 and AES-256-GCM are not     *)
(* code of the repository; they are modelled by small keyed functions on   *)
(* bytes that keep what the callers rely on: derive_key is a deterministic *)
(* function of the passphrase bytes and the salt, the ciphertext is the    *)
(* masked plaintext followed by a TAG_LEN-byte tag over key, nonce and     *)
(* body, and decryption checks the tag before it returns anything.  Every  *)
(* single-bit change of salt, nonce or body changes the tag.               *)
(***************************************************************************)
\* a key derivation that leaves the passphrase out, for comparison
derive_key_ignoring_password(password, salt) ==
    Let(Sum(salt), LAMBDA ss : Let(WSum(salt), LAMBDA ws :
        MapRange(LAMBDA i : (ss * (i + 1) + ws) % 256, KEY_LEN)))

derive_key(password, salt) ==
    Let(str_encode(password), LAMBDA pw :
    Let(Sum(pw), LAMBDA sp : Let(WSum(pw) + Len(pw), LAMBDA wp :
    Let(Sum(salt), LAMBDA ss : Let(WSum(salt), LAMBDA ws :
        MapRange(LAMBDA i : (sp * i + wp + ss * (i + 1) + ws) % 256,
                 KEY_LEN))))))

AESGCM_mask(key, nonce, i) ==
    key[((i - 1) % KEY_LEN) + 1]
    + (IF Len(nonce) = 0 THEN 0 ELSE nonce[((i - 1) % Len(nonce)) + 1])

AESGCM_tag(key, nonce, body) ==
    Let(Sum(nonce), LAMBDA sn : Let(WSum(nonce) + Len(nonce), LAMBDA wn :
    Let(Sum(body), LAMBDA sb : Let(WSum(body) + Len(body), LAMBDA wb :
        MapRange(LAMBDA j : (key[j] + sn * j + wn + sb * (j + 1) + wb) % 256,
                 TAG_LEN)))))

AESGCM_encrypt(key, nonce, data) ==
    Let(MapRange(LAMBDA i : (data[i] + AESGCM_mask(key, nonce, i)) % 256,
                 Len(data)),
        LAMBDA body : body \o AESGCM_tag(key, nonce, body))

\* the body of a ciphertext, unmasked
AESGCM_unmask(key, nonce, body) ==
    MapRange(LAMBDA i : (body[i] + 512 - AESGCM_mask(key, nonce, i)) % 256,
             Len(body))

\* an open operation that does not verify the tag, for comparison
AESGCM_decrypt_unauthenticated(key, nonce, data) ==
    IF Len(data) < TAG_LEN THEN Raise("InvalidTag")
    ELSE Ok(AESGCM_unmask(key, nonce, SubSeq(data, 1, Len(data) - TAG_LEN)))

AESGCM_decrypt(key, nonce, data) ==
    IF Len(nonce) < 8 \/ Len(nonce) > 128 THEN Raise("ValueError")
    ELSE IF Len(data) < TAG_LEN THEN Raise("InvalidTag")
    ELSE Let(SubSeq(data, 1, Len(data) - TAG_LEN), LAMBDA body :
         IF SubSeq(data, Len(data) - TAG_LEN + 1, Len(data))
                # AESGCM_tag(key, nonce, body)
         THEN Raise("InvalidTag")
         ELSE Ok(AESGCM_unmask(key, nonce, body)))

(***************************************************************************)
(* JSON values as Python holds them after json.load.                       *)
(***************************************************************************)
JDict(f) == [type |-> "dict", fields |-> f]

JList(s) == [type |-> "list", elems |-> s]

JInt(n) == [type |-> "int", n |-> n]

(***************************************************************************)
(* app/crypto/crypto_utils.py.  The salt and the nonce that encrypt draws  *)
(* from os.urandom are parameters here.                                    *)
(***************************************************************************)
\* an encrypt that stores the nonce in the salt field, for comparison
encrypt_storing_nonce_as_salt(password, plaintext, salt, nonce) ==
    Let(derive_key(password, salt), LAMBDA key :
    Let(AESGCM_encrypt(key, nonce, str_encode(plaintext)), LAMBDA ciphertext :
        JDict([salt       |-> urlsafe_b64encode(nonce),
               nonce      |-> urlsafe_b64encode(nonce),
               ciphertext |-> urlsafe_b64encode(ciphertext)])))

\* an encrypt that stores the plaintext itself, for comparison
encrypt_in_clear(password, plaintext, salt, nonce) ==
    JDict([salt       |-> urlsafe_b64encode(salt),
           nonce      |-> urlsafe_b64encode(nonce),
           ciphertext |-> urlsafe_b64encode(str_encode(plaintext))])

encrypt(password, plaintext, salt, nonce) ==
    Let(derive_key(password, salt), LAMBDA key :
    Let(str_encode(plaintext), LAMBDA data :
    Let(AESGCM_encrypt(key, nonce, data), LAMBDA ciphertext :
        JDict([salt       |-> urlsafe_b64encode(salt),
               nonce      |-> urlsafe_b64encode(nonce),
               ciphertext |-> urlsafe_b64encode(ciphertext)]))))

\* decrypt with the AEAD's open operation as a parameter
decrypt_with(password, stored, Open(_, _, _)) ==
    Let(stored, LAMBDA data :
    IF data.type # "dict" THEN Raise("TypeError")
    ELSE IF ~ ({"salt", "nonce", "ciphertext"} \subseteq DOMAIN data.fields)
    THEN Raise("KeyError")
    ELSE
    Let(urlsafe_b64decode(data.fields.salt), LAMBDA salt :
    IF ~ IsOk(salt) THEN salt ELSE
    Let(urlsafe_b64decode(data.fields.nonce), LAMBDA nonce :
    IF ~ IsOk(nonce) THEN nonce ELSE
    Let(urlsafe_b64decode(data.fields.ciphertext), LAMBDA ciphertext :
    IF ~ IsOk(ciphertext) THEN ciphertext ELSE
    Let(derive_key(password, salt.val), LAMBDA key :
    Let(Open(key, nonce.val, ciphertext.val), LAMBDA plain :
        IF ~ IsOk(plain) THEN plain ELSE bytes_decode(plain.val)))))))

\* a decrypt that does not verify the tag, for comparison
decrypt_unauthenticated(password, data) ==
    decrypt_with(password, data, AESGCM_decrypt_unauthenticated)

decrypt(password, data) == decrypt_with(password, data, AESGCM_decrypt)

(***************************************************************************)
(* json.dumps of an entry {"service", "username", "password"} and          *)
(* json.loads of a decrypted plaintext, character by character.  dumps     *)
(* escapes '"' (34) and '\' (92) and writes a code point above 126 as      *)
(* \u00xx or \u0xxx (ensure_ascii).                                        *)
(***************************************************************************)
\* {"service": "
LitService == <<123, 34, 115, 101, 114, 118, 105, 99, 101, 34, 58, 32, 34>>

\* ", "username": "   without its first character, the closing quote
LitUsername == <<44, 32, 34, 117, 115, 101, 114, 110, 97, 109, 101, 34, 58,
                 32, 34>>

\* ", "password": "   without its first character
LitPassword == <<44, 32, 34, 112, 97, 115, 115, 119, 111, 114, 100, 34, 58,
                 32, 34>>

\* }
LitClose == <<125>>

HexDigit(d) == IF d < 10 THEN 48 + d ELSE 87 + d

HexValue(c) == IF c >= 48 /\ c <= 57 THEN c - 48
               ELSE IF c >= 97 /\ c <= 102 THEN c - 87
               ELSE IF c >= 65 /\ c <= 70 THEN c - 55
               ELSE 16

\* a text without quote, backslash and non-ASCII characters is written as
\* it is
json_escape(s) ==
    Let(s, LAMBDA x :
        IF \A i \in 1..Len(x) : x[i] # 34 /\ x[i] # 92 /\ x[i] <= 126 THEN x
        ELSE
        FoldRange(LAMBDA out, i :
                     IF x[i] = 34 \/ x[i] = 92 THEN out \o <<92, x[i]>>
                     ELSE IF x[i] > 126 THEN
                         out \o <<92, 117, 48, HexDigit(x[i] \div 256),
                                  HexDigit((x[i] \div 16) % 16),
                                  HexDigit(x[i] % 16)>>
                     ELSE Append(out, x[i]),
                  1, Len(x), <<>>))

json_dumps(entry) ==
    LitService \o json_escape(entry.service) \o <<34>>
    \o LitUsername \o json_escape(entry.username) \o <<34>>
    \o LitPassword \o json_escape(entry.password) \o <<34>>
    \o LitClose

\* One character of a string literal.  mode is "char", "escape" after a
\* backslash, "hex" inside \uxxxx (digits read so far: nhex, their value:
\* acc), "end" after the closing quote (next: the position after it).
json_scan_step(st, c, i) ==
    IF st.mode = "end" \/ st.err # "" THEN st
    ELSE IF st.mode = "escape" THEN
        IF c = 34 \/ c = 92
        THEN [st EXCEPT !.mode = "char", !.val = Append(@, c)]
        ELSE IF c = 117 THEN [st EXCEPT !.mode = "hex", !.nhex = 0, !.acc = 0]
        ELSE [st EXCEPT !.err = "JSONDecodeError"]
    ELSE IF st.mode = "hex" THEN
        IF HexValue(c) = 16 THEN [st EXCEPT !.err = "JSONDecodeError"]
        ELSE IF st.nhex = 3
        THEN [st EXCEPT !.mode = "char",
                        !.val = Append(@, st.acc * 16 + HexValue(c))]
        ELSE [st EXCEPT !.nhex = @ + 1, !.acc = @ * 16 + HexValue(c)]
    ELSE IF c = 34 THEN [st EXCEPT !.mode = "end", !.next = i + 1]
    ELSE IF c = 92 THEN [st EXCEPT !.mode = "escape"]
    ELSE IF c < 32 THEN [st EXCEPT !.err = "JSONDecodeError"]
    ELSE [st EXCEPT !.val = Append(@, c)]

\* the string literal whose first character is s[i], the opening quote
\* already read: [err, val, next]
\* When the first quote, backslash or control character from s[i] on is a
\* quote at s[q], the literal is the text before it.
json_scan_string(s, i) ==
    Let(Let({k \in i..Len(s) : s[k] = 34 \/ s[k] = 92 \/ s[k] < 32},
            LAMBDA special :
            IF special # {}
               /\ s[CHOOSE q \in special : \A k \in special : q <= k] = 34
            THEN Let(CHOOSE q \in special : \A k \in special : q <= k,
                     LAMBDA q : [mode |-> "end", err |-> "",
                                 val |-> SubSeq(s, i, q - 1),
                                 nhex |-> 0, acc |-> 0, next |-> q + 1])
            ELSE
            FoldRange(LAMBDA x, k : json_scan_step(x, s[k], k), i, Len(s),
                      [mode |-> "char", err |-> "", val |-> <<>>,
                       nhex |-> 0, acc |-> 0, next |-> 0])),
        LAMBDA st : IF st.err # "" \/ st.mode # "end"
                    THEN [err |-> "JSONDecodeError", val |-> <<>>, next |-> 0]
                    ELSE [err |-> "", val |-> st.val, next |-> st.next])

HasAt(s, i, lit) ==
    /\ i + Len(lit) - 1 <= Len(s)
    /\ SubSeq(s, i, i + Len(lit) - 1) = lit

\* json.loads of a text: the entry it spells, or JSONDecodeError.  Only the
\* layout json.dumps writes is read; every other text is an error, which
\* the callers treat like any other exception.
json_loads(text) ==
    Let(text, LAMBDA s :
    IF ~ HasAt(s, 1, LitService) THEN Raise("JSONDecodeError")
    ELSE Let(json_scan_string(s, Len(LitService) + 1), LAMBDA a :
    IF a.err # "" \/ ~ HasAt(s, a.next, LitUsername)
    THEN Raise("JSONDecodeError")
    ELSE Let(json_scan_string(s, a.next + Len(LitUsername)), LAMBDA b :
    IF b.err # "" \/ ~ HasAt(s, b.next, LitPassword)
    THEN Raise("JSONDecodeError")
    ELSE Let(json_scan_string(s, b.next + Len(LitPassword)), LAMBDA c :
    IF c.err # "" \/ ~ HasAt(s, c.next, LitClose)
       \/ c.next + Len(LitClose) - 1 # Len(s)
    THEN Raise("JSONDecodeError")
    ELSE Ok([service |-> a.val, username |-> b.val, password |-> c.val])))))

(***************************************************************************)
(* The vault file.  Its text is a sequence of JSON tokens: the brackets    *)
(* and commas of the top-level array and one token for each element.       *)
(* json.dump writes the tokens in order; json.load reads all of them or    *)
(* raises JSONDecodeError.                                                 *)
(***************************************************************************)
TLB == [t |-> "["]

TRB == [t |-> "]"]

TComma == [t |-> ","]

TVal(v) == [t |-> "value", v |-> v]

RECURSIVE json_dump_elems(_, _)
json_dump_elems(elems, i) ==
    IF i > Len(elems) THEN <<>>
    ELSE (IF i = 1 THEN <<>> ELSE <<TComma>>)
         \o <<TVal(elems[i])>> \o json_dump_elems(elems, i + 1)

json_dump(data) ==
    IF data.type = "list"
    THEN <<TLB>> \o json_dump_elems(data.elems, 1) \o <<TRB>>
    ELSE <<TVal(data)>>

\* the elements after an opening bracket, i at an element
RECURSIVE json_load_elems(_, _, _)
json_load_elems(text, i, out) ==
    IF i > Len(text) \/ text[i].t # "value" THEN Raise("JSONDecodeError")
    ELSE IF i + 1 > Len(text) THEN Raise("JSONDecodeError")
    ELSE IF text[i + 1].t = "]"
         THEN (IF i + 1 = Len(text) THEN Ok(JList(Append(out, text[i].v)))
               ELSE Raise("JSONDecodeError"))
    ELSE IF text[i + 1].t = ","
         THEN json_load_elems(text, i + 2, Append(out, text[i].v))
    ELSE Raise("JSONDecodeError")

json_load(text) ==
    IF Len(text) = 0 THEN Raise("JSONDecodeError")
    ELSE IF text[1].t = "value"
         THEN (IF Len(text) = 1 THEN Ok(text[1].v)
               ELSE Raise("JSONDecodeError"))
    ELSE IF text[1].t = "["
         THEN (IF Len(text) = 2 /\ text[2].t = "]" THEN Ok(JList(<<>>))
               ELSE json_load_elems(text, 2, <<>>))
    ELSE Raise("JSONDecodeError")

(***************************************************************************)
(* The values the model draws its inputs from.                             *)
(***************************************************************************)
\* "passw0rd"
PwA == <<112, 97, 115, 115, 119, 48, 114, 100>>

\* "Passw0rd"
PwB == <<80, 97, 115, 115, 119, 48, 114, 100>>

\* "abc", shorter than the 8 characters the handlers ask for
PwShort == <<97, 98, 99>>

Passphrases == {PwA, PwB, PwShort}

\* "", "hi", and "h" followed by e-acute (two bytes in UTF-8)
Plaintexts == {<<>>, <<104, 105>>, <<104, 233>>}

\* what os.urandom(16) may return; the encodings end in 'A' and in 'w'
Salts == {[i \in 1..SALT_LEN |-> i], [i \in 1..SALT_LEN |-> 255 - i]}

\* what os.urandom(12) may return
Nonces == {[i \in 1..NONCE_LEN |-> 7 * i]}

NoRecord == JDict([none |-> <<>>])

\* what the user types into #master: nothing, "abc" followed by five
\* spaces, "passw0rd", "Passw0rd"
MasterTexts == {<<>>, PwShort \o <<32, 32, 32, 32, 32>>, PwA, PwB}

\* "g", "m"
Services == {<<103>>, <<109>>}

\* "a"
Usernames == {<<97>>}

\* b"   (a letter and a double quote)
Passwords == {<<98, 34>>}

\* the salt and nonce os.urandom returns to the handlers
AppSalts == {[i \in 1..SALT_LEN |-> i]}

AppNonces == {[i \in 1..NONCE_LEN |-> 7 * i]}

(***************************************************************************)
(* The state.                                                              *)
(***************************************************************************)
VARIABLES
    c_phase,      \* cipher scenario: "start", "encrypted", "decrypted"
    c_password,   \* the passphrase given to encrypt
    c_plaintext,  \* the plaintext given to encrypt
    c_record,     \* the record encrypt returned
    c_data,       \* the record as stored, given to decrypt
    c_password2,  \* the passphrase given to decrypt
    c_out,        \* what decrypt returned or raised
    app,          \* "running"; "crashed" once a handler raised an exception
                  \* that nothing caught (Textual then ends the app)
    vault,        \* the vault file: [exists, text]
    master,       \* the text of the #master input
    status,       \* the text of the #status widget: [msg, n]
    table,        \* the rows of #vault_table
    confirm_state,\* self._confirm_state
    screen,       \* the ids of the buttons mounted on the screen
    program,      \* which application runs: "main_ui" (app/ui/main_ui.py) or
                  \* "ui" (app/ui.py, whose file is data/passwords.json)
    MASTER_KEY,   \* app/crypto_utils.py: the environment variable, or NoKey
    SECRET_KEY,   \* app/crypto_utils.py: the key of the running process
    procs,        \* two processes at once: for each its position in the save
                  \* or in create_self_signed_cert, its inputs, what it read
                  \* and what it wrote
    writes,       \* the processes in the order in which they wrote the file
    cert_file,    \* app/p2p/cert.pem: 0 when absent, else the key it certifies
    key_file,     \* app/p2p/key.pem: 0 when absent, else the key it holds
    rx,           \* the receive_password call: position, connection, result
    tx,           \* the share_password call of each sender
    backlog,      \* connections established with the listener, not accepted
    delivered,    \* the payloads receive_password calls have returned
    last          \* history: the handler that ran last, the vault file
                  \* before it, the record it wrote, the passphrase it read

cipherVars == <<c_phase, c_password, c_plaintext, c_record, c_data,
                c_password2, c_out>>

processVars == <<program, MASTER_KEY, SECRET_KEY, screen>>

appVars == <<app, vault, master, status, table, confirm_state, last,
             processVars>>

raceVars == <<procs, writes>>

netVars == <<cert_file, key_file, rx, tx, backlog, delivered>>

sideVars == <<raceVars, netVars>>

vars == <<cipherVars, appVars, sideVars>>

(***************************************************************************)
(* app/ui/main_ui.py: the state of PasswordManagerApp.                     *)
(***************************************************************************)
NoFile == [exists |-> FALSE, text |-> <<>>]

File(text) == [exists |-> TRUE, text |-> text]

St(m) == [msg |-> m, n |-> 0]

NoEntry == [service |-> <<>>, username |-> <<>>, password |-> <<>>]

\* self._confirm_state = None; the confirm_id, a uuid4 nothing reads, is
\* left out
None == [action |-> "none", data |-> NoEntry]

Pending(action, data) == [action |-> action, data |-> data]

NoOp == [op |-> "none", before |-> NoFile, rec |-> NoRecord, pw |-> <<>>]

Did(op, rec, pw) == [op |-> op, before |-> vault, rec |-> rec, pw |-> pw]

\* the state a fresh process starts in (__init__, compose, on_mount)
AppStart ==
    /\ app = "running"
    /\ master = <<>>
    /\ status = St("Status: Ready")
    /\ table = <<>>
    /\ confirm_state = None

\* the buttons compose yields; there is no button with id "confirm"
Buttons == {"toggle_password", "save", "load", "reset", "clear_vault",
            "copy_table", "share", "receive", "help"}

\* str.strip() of the space character
RECURSIVE Strip(_)
Strip(s) ==
    IF s = <<>> THEN s
    ELSE IF Head(s) = 32 THEN Strip(Tail(s))
    ELSE IF s[Len(s)] = 32 THEN Strip(SubSeq(s, 1, Len(s) - 1))
    ELSE s

\* get_input_values()["master"]
get_master == Strip(master)

\* update_status(message), every other widget left alone
StatusOnly(msg) ==
    /\ status' = St(msg)
    /\ UNCHANGED <<app, vault, master, table, confirm_state>>

\* An exception leaves the handler uncaught: the app ends and what the
\* process held in memory is gone; the vault file stays as it is.
Unhandled ==
    /\ app' = "crashed"
    /\ master' = <<>>
    /\ status' = St("")
    /\ table' = <<>>
    /\ confirm_state' = None
    /\ UNCHANGED vault

\* toggle_confirm_button: query_one("#confirm", Button) raises NoMatches
\* when no such widget was composed
toggle_confirm_button_raises == ~ ("confirm" \in screen)

JStr(s) == [type |-> "str", s |-> s]

RECURSIVE KeysOf(_)
KeysOf(f) ==
    IF DOMAIN f = {} THEN <<>>
    ELSE LET k == CHOOSE x \in DOMAIN f : TRUE
         IN  <<JStr(k)>> \o KeysOf([x \in DOMAIN f \ {k} |-> f[x]])

\* "for record in data": the elements of a list, the keys of a dict,
\* TypeError for a number
Iterate(data) ==
    IF data.type = "list" THEN Ok(data.elems)
    ELSE IF data.type = "dict" THEN Ok(KeysOf(data.fields))
    ELSE Raise("TypeError")

\* an append that forgets the elements already there, for comparison
list_append_forgetting(data, x) == JList(<<x>>)

\* an insertion at the front of the list, for comparison
list_insert_first(data, x) == JList(<<x>> \o data.elems)

\* data.append(x), for a list
list_append(data, x) == JList(Append(data.elems, x))

\* json.loads(decrypt(master, record)), or the first exception
decrypt_entry_of(m, record) ==
    Let(decrypt(m, record), LAMBDA d :
        IF ~ IsOk(d) THEN d ELSE json_loads(d.val))

check_service_exists(service, elems, m) ==
    \E i \in 1..Len(elems) :
        \E e \in {decrypt_entry_of(m, elems[i])} :
            IsOk(e) /\ e.val.service = service

\* the file as the handlers read it: [] when it does not exist
ReadVault == IF vault.exists THEN json_load(vault.text) ELSE Ok(JList(<<>>))

\* a check that lets every master password pass, for comparison
master_never_too_short(m) == FALSE

\* len(inputs["master"]) < 8
master_too_short(m) == Len(m) < MIN_MASTER_LEN

handle_save_entry(service, username, password) ==
    \E m \in {get_master} :
    \E entry \in {[service |-> service, username |-> username,
                   password |-> password]} :
    IF service = <<>> \/ password = <<>> THEN
        /\ StatusOnly("[Error] Service and Password are required.")
        /\ last' = Did("save", NoRecord, m)
    ELSE IF master_too_short(m) THEN
        /\ StatusOnly("[Error] Master password must be at least 8 characters.")
        /\ last' = Did("save", NoRecord, m)
    ELSE
    \E read \in {ReadVault} :
    IF ~ IsOk(read) THEN
        /\ StatusOnly("[Error] Vault file is corrupted.")
        /\ last' = Did("save", NoRecord, m)
    ELSE
    \E data \in {read.val} : \E it \in {Iterate(data)} :
    IF ~ IsOk(it) THEN
        /\ Unhandled
        /\ last' = Did("save", NoRecord, m)
    ELSE IF check_service_exists(service, it.val, m) THEN
        /\ last' = Did("save", NoRecord, m)
        /\ IF toggle_confirm_button_raises THEN Unhandled
           ELSE /\ confirm_state' = Pending("save", entry)
                /\ status' = St("Service already exists. Click Confirm to overwrite.")
                /\ UNCHANGED <<app, vault, master, table>>
    ELSE IF data.type # "list" THEN
        /\ Unhandled
        /\ last' = Did("save", NoRecord, m)
    ELSE
        /\ Len(data.elems) < MaxRecords
        /\ \E salt \in AppSalts, nonce \in AppNonces :
             \E encrypted \in {encrypt(m, json_dumps(entry), salt, nonce)} :
                 /\ vault' = File(json_dump(list_append(data, encrypted)))
                 /\ last' = Did("save", encrypted, m)
        /\ status' = St("Entry saved successfully.")
        /\ master' = <<>>
        /\ UNCHANGED <<app, table, confirm_state>>

handle_clear_vault ==
    /\ last' = Did("clear_vault", NoRecord, <<>>)
    /\ IF ~ vault.exists THEN StatusOnly("[Error] No vault found to clear.")
       ELSE IF toggle_confirm_button_raises THEN Unhandled
       ELSE /\ confirm_state' = Pending("clear", NoEntry)
            /\ status' = St("Are you sure you want to clear the vault? Click Confirm to proceed.")
            /\ UNCHANGED <<app, vault, master, table>>

\* the rows and the error count of handle_load_vault's loop over elems[i..]
RECURSIVE LoadLoop(_, _, _, _, _)
LoadLoop(elems, i, m, rows, errors) ==
    IF i > Len(elems) THEN [rows |-> rows, errors |-> errors]
    ELSE Let(decrypt_entry_of(m, elems[i]), LAMBDA e :
         IF IsOk(e)
         THEN LoadLoop(elems, i + 1, m,
                  Append(rows, <<e.val.service, e.val.username,
                                 e.val.password>>), errors)
         ELSE LoadLoop(elems, i + 1, m, rows, errors + 1))

handle_load_vault ==
    \E m \in {get_master} :
    /\ last' = Did("load", NoRecord, m)
    /\ IF m = <<>> THEN StatusOnly("[Error] Master password is required.")
       ELSE IF Len(m) < MIN_MASTER_LEN THEN
           StatusOnly("[Error] Master password must be at least 8 characters.")
       ELSE IF ~ vault.exists THEN StatusOnly("[Error] No vault found.")
       ELSE
       \E read \in {json_load(vault.text)} :
       IF ~ IsOk(read) THEN
           /\ table' = <<>>
           /\ status' = St("[Error] Vault file is corrupted.")
           /\ UNCHANGED <<app, vault, master, confirm_state>>
       ELSE
       \E it \in {Iterate(read.val)} :
       IF ~ IsOk(it) THEN Unhandled
       ELSE
       \E r \in {LoadLoop(it.val, 1, m, <<>>, 0)} :
           /\ table' = r.rows
           /\ status' =
                IF r.errors = Len(it.val)
                THEN St("[Error] Decryption failed for all entries.")
                ELSE IF r.errors > 0
                THEN [msg |-> "Loaded vault with decryption errors.",
                      n |-> r.errors]
                ELSE St("Vault loaded successfully.")
           /\ master' = <<>>
           /\ UNCHANGED <<app, vault, confirm_state>>

\* handle_reset_form: the inputs are emptied and the status set, then
\* toggle_confirm_button(False) is called before _confirm_state is cleared
handle_reset_form ==
    /\ last' = Did("reset", NoRecord, <<>>)
    /\ IF toggle_confirm_button_raises THEN Unhandled
       ELSE /\ master' = <<>>
            /\ status' = St("Form reset.")
            /\ confirm_state' = None
            /\ UNCHANGED <<app, vault, table>>

\* a Confirm that leaves the request pending, for comparison
confirm_state_kept(pending) == pending

\* action, confirm_id, data = self._confirm_state; self._confirm_state = None
confirm_state_taken(pending) == None

\* handle_confirm; no button of the composed screen reaches it
handle_confirm ==
    /\ last' = Did("confirm", NoRecord, get_master)
    /\ IF confirm_state = None THEN
          IF toggle_confirm_button_raises THEN Unhandled
          ELSE StatusOnly("[Error] No confirmation action pending.")
       ELSE IF toggle_confirm_button_raises THEN Unhandled
       ELSE IF confirm_state.action = "save" /\ confirm_state.data # NoEntry THEN
          \E read \in {ReadVault} :
          IF ~ IsOk(read) THEN
             /\ confirm_state' = confirm_state_taken(confirm_state)
             /\ status' = St("[Error] Vault file is corrupted.")
             /\ UNCHANGED <<app, vault, master, table>>
          ELSE IF read.val.type # "list" THEN
             /\ confirm_state' = confirm_state_taken(confirm_state)
             /\ status' = St("[Error] Failed to save entry")
             /\ UNCHANGED <<app, vault, master, table>>
          ELSE
             /\ Len(read.val.elems) < MaxRecords
             /\ \E salt \in AppSalts, nonce \in AppNonces :
                  \E encrypted \in {encrypt(get_master,
                                            json_dumps(confirm_state.data),
                                            salt, nonce)} :
                      vault' = File(json_dump(
                                   list_append(read.val, encrypted)))
             /\ confirm_state' = confirm_state_taken(confirm_state)
             /\ status' = St("Entry overwritten successfully.")
             /\ master' = <<>>
             /\ UNCHANGED <<app, table>>
       ELSE IF confirm_state.action = "clear" THEN
          /\ vault' = File(json_dump(JList(<<>>)))
          /\ table' = <<>>
          /\ confirm_state' = confirm_state_taken(confirm_state)
          /\ status' = St("Vault cleared successfully.")
          /\ UNCHANGED <<app, master>>
       ELSE /\ confirm_state' = confirm_state_taken(confirm_state)
            /\ UNCHANGED <<app, vault, master, status, table>>

(***************************************************************************)
(* app/p2p/p2p.py: the identity files and the transfer of one payload.     *)
(* An identity file is 0 when it does not exist; otherwise it is the       *)
(* number of the RSA key it holds (key.pem) or certifies (cert.pem).       *)
(***************************************************************************)
\* ssock.recv(4096)
RECV_MAX == 4096

\* sock.listen(1)
BACKLOG == 1

\* the keys rsa.generate_private_key may return
KeyIds == {1, 2}

\* the key it returns to the process that runs the handlers
AppKeyIds == {1}

\* a variant that writes a new identity on every call, for comparison
create_self_signed_cert_always(cert, key, k) == [cert |-> k, key |-> k]

\* create_self_signed_cert() when the files are cert and key and the key it
\* would generate is k: the files after the call
create_self_signed_cert(cert, key, k) ==
    IF cert # 0 /\ key # 0 THEN [cert |-> cert, key |-> key]
    ELSE [cert |-> k, key |-> k]

\* context.load_cert_chain(CERT_FILE, KEY_FILE): the private key must be the
\* one the certificate certifies
load_cert_chain(cert, key) ==
    IF cert # 0 /\ cert = key THEN Ok(cert) ELSE Raise("SSLError")

\* a read that returns everything the peer wrote, for comparison
recv_unbounded(stream, bufsize) == stream

\* a read that returns one byte less than the buffer holds, for comparison
recv_one_short(stream, bufsize) ==
    IF Len(stream) < bufsize THEN stream ELSE SubSeq(stream, 1, bufsize - 1)

\* ssock.recv(bufsize) when the peer wrote stream and closed.  sendall hands
\* the payload to the TLS layer in one write and the receiver sees a TLS
\* record whole or not at all, so the read returns the first bufsize bytes.
recv(stream, bufsize) ==
    IF Len(stream) <= bufsize THEN stream ELSE SubSeq(stream, 1, bufsize)

\* ssock.recv(4096).decode()
recv_decode(stream) == bytes_decode(recv(stream, RECV_MAX))

\* int(port_str) of a stripped text: decimal digits, or ValueError
int(port_str) ==
    IF port_str = <<>> \/ \E i \in 1..Len(port_str) :
                              port_str[i] < 48 \/ port_str[i] > 57
    THEN Raise("ValueError")
    ELSE Ok(FoldRange(LAMBDA acc, i : acc * 10 + (port_str[i] - 48),
                      1, Len(port_str), 0))

\* validate_port(port_str): the port, or the status it sets
validate_port(port_str) ==
    Let(int(port_str), LAMBDA port :
        IF ~ IsOk(port) THEN Raise("[Error] Port must be a valid number.")
        ELSE IF 1 <= port.val /\ port.val <= 65535 THEN port
        ELSE Raise("[Error] Port must be between 1 and 65535."))

\* get_input_values()["peer_port"] for the text typed into #peer_port
peer_port(text) == IF Strip(text) = <<>> THEN <<54, 53, 52, 51, 50>>
                   ELSE Strip(text)

\* what the user types into #peer_port: nothing, "0"
PortTexts == {<<>>, <<48>>}

\* a handler that reports success whatever share_password did, for comparison
share_status_always_shared(result, port) ==
    [msg |-> "Password shared to 127.0.0.1:", n |-> port]

\* the status handle_share_entry sets for the outcome of share_password;
\* #peer_ip is left empty, so the address is 127.0.0.1
share_status(result, port) ==
    IF IsOk(result) THEN [msg |-> "Password shared to 127.0.0.1:", n |-> port]
    ELSE IF result.err = "ConnectionRefusedError"
    THEN [msg |-> "[Error] Connection refused by 127.0.0.1:", n |-> port]
    ELSE IF result.err = "TimeoutError"
    THEN [msg |-> "[Error] Connection to 127.0.0.1: timed out.", n |-> port]
    ELSE St("[Error] Share failed: ")

\* the status handle_receive_entry sets for the outcome of receive_password
receive_status(result) ==
    IF ~ IsOk(result) THEN St("[Error] Receive failed: ")
    ELSE IF result.val = <<>> THEN St("[Error] No data received.")
    ELSE IF IsOk(json_loads(result.val))
    THEN St("Password received successfully.")
    ELSE St("[Error] Invalid data received.")

\* how share_password may end for the handler of one process: the peer is
\* not part of that process
ShareOutcomes == {Ok(<<>>), Raise("ConnectionRefusedError")}

\* what receive_password may bring the handler of one process
ReceiveOutcomes ==
    {Ok(json_dumps([service |-> <<103>>, username |-> <<97>>,
                    password |-> <<98>>])),
     Raise("SSLError")}

\* handle_share_entry(inputs); result is how share_password ends and k the
\* key create_self_signed_cert generates if it generates one
handle_share_entry(service, password, port_text, result, k) ==
    /\ last' = Did("share", NoRecord, <<>>)
    /\ \E port \in {validate_port(peer_port(port_text))} :
       IF ~ IsOk(port) THEN
           /\ StatusOnly(port.err)
           /\ UNCHANGED <<cert_file, key_file>>
       ELSE IF service = <<>> \/ password = <<>> THEN
           /\ StatusOnly("[Error] Service and Password are required.")
           /\ UNCHANGED <<cert_file, key_file>>
       ELSE
           /\ \E id \in {create_self_signed_cert(cert_file, key_file, k)} :
                 /\ cert_file' = id.cert
                 /\ key_file' = id.key
           /\ status' = share_status(result, port.val)
           /\ UNCHANGED <<app, vault, master, table, confirm_state>>

\* handle_receive_entry(port_str); result is what receive_password brings
\* once the identity is loaded
handle_receive_entry(port_text, result, k) ==
    /\ last' = Did("receive", NoRecord, <<>>)
    /\ \E port \in {validate_port(peer_port(port_text))} :
       IF ~ IsOk(port) THEN
           /\ StatusOnly(port.err)
           /\ UNCHANGED <<cert_file, key_file>>
       ELSE
           \E id \in {create_self_signed_cert(cert_file, key_file, k)} :
               /\ cert_file' = id.cert
               /\ key_file' = id.key
               /\ status' = IF IsOk(load_cert_chain(id.cert, id.key))
                            THEN receive_status(result)
                            ELSE receive_status(Raise("SSLError"))
               /\ UNCHANGED <<app, vault, master, table, confirm_state>>

\* on_button_pressed(event): only a button that compose yielded can be
\* pressed, and only while the app runs; the handler is chosen by its id
on_button_pressed(button_id) ==
    /\ program = "main_ui"
    /\ app = "running"
    /\ button_id \in screen

PressSave ==
    /\ on_button_pressed("save")
    /\ \E service \in Services \cup {<<>>}, username \in Usernames,
          password \in Passwords :
           handle_save_entry(service, username, password)
    /\ UNCHANGED <<cipherVars, processVars, sideVars>>

PressLoad ==
    /\ on_button_pressed("load")
    /\ handle_load_vault
    /\ UNCHANGED <<cipherVars, processVars, sideVars>>

PressReset ==
    /\ on_button_pressed("reset")
    /\ handle_reset_form
    /\ UNCHANGED <<cipherVars, processVars, sideVars>>

PressClearVault ==
    /\ on_button_pressed("clear_vault")
    /\ handle_clear_vault
    /\ UNCHANGED <<cipherVars, processVars, sideVars>>

PressShare ==
    /\ on_button_pressed("share")
    /\ \E service \in {<<103>>, <<>>}, password \in Passwords,
          port_text \in PortTexts, result \in ShareOutcomes, k \in AppKeyIds :
           handle_share_entry(service, password, port_text, result, k)
    /\ UNCHANGED <<cipherVars, processVars, raceVars>>
    /\ UNCHANGED <<rx, tx, backlog, delivered>>

PressReceive ==
    /\ on_button_pressed("receive")
    /\ \E port_text \in PortTexts, result \in ReceiveOutcomes, k \in AppKeyIds :
           handle_receive_entry(port_text, result, k)
    /\ UNCHANGED <<cipherVars, processVars, raceVars>>
    /\ UNCHANGED <<rx, tx, backlog, delivered>>

\* not enabled on the screen compose yields, which has no button with id
\* "confirm"
PressConfirm ==
    /\ on_button_pressed("confirm")
    /\ handle_confirm
    /\ UNCHANGED <<cipherVars, processVars, sideVars>>

\* the user edits the #master input
TypeMaster ==
    /\ program = "main_ui"
    /\ app = "running"
    /\ \E text \in MasterTexts : master' = text
    /\ master' # master
    /\ UNCHANGED <<app, vault, status, table, confirm_state, last>>
    /\ UNCHANGED <<cipherVars, processVars, sideVars>>

\* the process is killed while handle_save_entry rewrites the file: open(
\* VAULT_PATH, "w") has truncated it and json.dump has written only the
\* first k tokens of the new text
handle_save_entry_killed ==
    /\ program = "main_ui"
    /\ app = "running"
    /\ \E m \in {get_master}, read \in {ReadVault} :
         /\ Len(m) >= MIN_MASTER_LEN
         /\ IsOk(read)
         /\ read.val.type = "list"
         /\ Len(read.val.elems) < MaxRecords
         /\ \E service \in Services, username \in Usernames,
               password \in Passwords, salt \in AppSalts, nonce \in AppNonces :
              /\ ~ check_service_exists(service, read.val.elems, m)
              /\ \E encrypted \in
                     {encrypt(m, json_dumps([service |-> service,
                                             username |-> username,
                                             password |-> password]),
                              salt, nonce)} :
                   \E text \in {json_dump(list_append(read.val,
                                                      encrypted))} :
                     /\ \E k \in 0..(Len(text) - 1) :
                            vault' = File(SubSeq(text, 1, k))
                     /\ last' = Did("save_killed", encrypted, m)
    /\ app' = "crashed"
    /\ master' = <<>>
    /\ status' = St("")
    /\ table' = <<>>
    /\ confirm_state' = None
    /\ UNCHANGED <<cipherVars, processVars, sideVars>>

\* the process ends, if it has not already, and the user starts the
\* program again
Restart ==
    /\ program = "main_ui"
    /\ app' = "running"
    /\ master' = <<>>
    /\ status' = St("Status: Ready")
    /\ table' = <<>>
    /\ confirm_state' = None
    /\ last' = Did("start", NoRecord, <<>>)
    /\ UNCHANGED vault
    /\ UNCHANGED <<cipherVars, processVars, sideVars>>

(***************************************************************************)
(* The legacy application: app/ui.py with app/storage.py and               *)
(* app/crypto_utils.py.  Fernet is library code; it is modelled by a       *)
(* token that is the base64 text of a version byte (128), the masked       *)
(* data and a one-byte tag over key and data.  The real token's            *)
(* timestamp and IV are left out.                                          *)
(***************************************************************************)
NoKey == 0

\* what Fernet.generate_key() may return
FernetKeys == {17, 34}

Fernet_tag(key, body) == (key * 7 + Sum(body) + WSum(body)) % 256

Fernet_encrypt(key, data) ==
    Let(MapRange(LAMBDA i : (data[i] + key) % 256, Len(data)), LAMBDA body :
        urlsafe_b64encode(<<128>> \o body \o <<Fernet_tag(key, body)>>))

Fernet_decrypt(key, token) ==
    Let(a2b_base64(token), LAMBDA raw :
    IF ~ IsOk(raw) THEN Raise("InvalidToken")
    ELSE IF Len(raw.val) < 2 \/ raw.val[1] # 128 THEN Raise("InvalidToken")
    ELSE Let(SubSeq(raw.val, 2, Len(raw.val) - 1), LAMBDA body :
         IF raw.val[Len(raw.val)] # Fernet_tag(key, body)
         THEN Raise("InvalidToken")
         ELSE Ok(MapRange(LAMBDA i : (body[i] + 256 - key) % 256,
                          Len(body)))))

\* fernet.encrypt(text.encode()).decode()
encrypt_field(key, text) == Fernet_encrypt(key, str_encode(text))

\* fernet.decrypt(token.encode()).decode()
decrypt_field(key, token) ==
    Let(Fernet_decrypt(key, str_encode(token)), LAMBDA plain :
        IF ~ IsOk(plain) THEN plain ELSE bytes_decode(plain.val))

encrypt_entry(key, site, username, password) ==
    JDict([site     |-> encrypt_field(key, site),
           username |-> encrypt_field(key, username),
           password |-> encrypt_field(key, password)])

decrypt_entry(key, stored) ==
    Let(stored, LAMBDA entry :
    IF entry.type # "dict" THEN Raise("TypeError")
    ELSE IF ~ ({"site", "username", "password"} \subseteq DOMAIN entry.fields)
    THEN Raise("KeyError")
    ELSE
    Let(decrypt_field(key, entry.fields.site), LAMBDA site :
    IF ~ IsOk(site) THEN site ELSE
    Let(decrypt_field(key, entry.fields.username), LAMBDA user :
    IF ~ IsOk(user) THEN user ELSE
    Let(decrypt_field(key, entry.fields.password), LAMBDA pwd :
    IF ~ IsOk(pwd) THEN pwd ELSE Ok(<<site.val, user.val, pwd.val>>)))))

\* storage.load_data() when DATA_FILE is file
load_data(file) ==
    IF file.exists THEN json_load(file.text) ELSE Ok(JList(<<>>))

\* storage.save_data(data): the text written to DATA_FILE
save_data(data) == File(json_dump(data))

\* the rows refresh_table adds for elems[i..], or the first exception
RECURSIVE RefreshLoop(_, _, _, _)
RefreshLoop(elems, i, key, rows) ==
    IF i > Len(elems) THEN Ok(rows)
    ELSE Let(decrypt_entry(key, elems[i]), LAMBDA e :
         IF ~ IsOk(e) THEN e
         ELSE RefreshLoop(elems, i + 1, key, Append(rows, e.val)))

\* refresh_table() when DATA_FILE is file: the rows of the table, or the
\* exception that leaves it
refresh_table(file, key) ==
    Let(load_data(file), LAMBDA read :
    IF ~ IsOk(read) THEN read ELSE
    Let(Iterate(read.val), LAMBDA it :
    IF ~ IsOk(it) THEN it ELSE RefreshLoop(it.val, 1, key, <<>>)))

\* on_button_pressed of app/ui.py, for the button "add"
ui_on_button_pressed(site, username, password) ==
    \E encrypted \in {encrypt_entry(SECRET_KEY, site, username, password)} :
    \E read \in {load_data(vault)} :
    IF ~ IsOk(read) \/ read.val.type # "list" THEN
        /\ app' = "crashed"
        /\ table' = <<>>
        /\ last' = Did("add", NoRecord, <<>>)
        /\ UNCHANGED vault
    ELSE
        /\ Len(read.val.elems) < MaxRecords
        /\ \E file \in {save_data(list_append(read.val, encrypted))} :
             /\ vault' = file
             /\ \E shown \in {refresh_table(file, SECRET_KEY)} :
                  /\ app' = IF IsOk(shown) THEN "running" ELSE "crashed"
                  /\ table' = shown.val
        /\ last' = Did("add", encrypted, <<>>)

PressAdd ==
    /\ program = "ui"
    /\ app = "running"
    /\ \E site \in Services \cup {<<>>}, username \in Usernames,
          password \in Passwords :
           ui_on_button_pressed(site, username, password)
    /\ UNCHANGED <<master, status, confirm_state, processVars, cipherVars,
                   sideVars>>

\* the process is killed while save_data rewrites the file
save_data_killed ==
    /\ program = "ui"
    /\ app = "running"
    /\ \E read \in {load_data(vault)} :
         /\ IsOk(read)
         /\ read.val.type = "list"
         /\ Len(read.val.elems) < MaxRecords
         /\ \E site \in Services, username \in Usernames,
               password \in Passwords :
              \E encrypted \in
                    {encrypt_entry(SECRET_KEY, site, username, password)} :
                \E file \in {save_data(list_append(read.val, encrypted))} :
                  /\ \E k \in 0..(Len(file.text) - 1) :
                         vault' = File(SubSeq(file.text, 1, k))
                  /\ last' = Did("save_killed", encrypted, <<>>)
    /\ app' = "crashed"
    /\ table' = <<>>
    /\ UNCHANGED <<master, status, confirm_state, processVars, cipherVars,
                   sideVars>>

\* The process ends, if it has not already, and the user starts the program
\* again: the module app/crypto_utils.py chooses SECRET_KEY and on_mount
\* calls refresh_table.
ui_Restart ==
    /\ program = "ui"
    /\ SECRET_KEY' \in (IF MASTER_KEY = NoKey THEN FernetKeys
                        ELSE {MASTER_KEY})
    /\ \E shown \in {refresh_table(vault, SECRET_KEY')} :
         /\ app' = IF IsOk(shown) THEN "running" ELSE "crashed"
         /\ table' = shown.val
    /\ last' = Did("on_mount", NoRecord, <<>>)
    /\ UNCHANGED <<vault, master, status, confirm_state, program, MASTER_KEY,
                   screen, cipherVars, sideVars>>

\* the vault file a process may find when it starts: none, an empty file,
\* "[]", a cut-off "[", "{}", "[1]" and "5"
StartFiles ==
    {NoFile, File(<<>>), File(<<TLB, TRB>>), File(<<TLB>>),
     File(<<TVal(JDict(<<>>))>>), File(<<TLB, TVal(JInt(1)), TRB>>),
     File(<<TVal(JInt(5))>>)}

CipherIdle ==
    /\ c_phase = "start"
    /\ c_password = PwA
    /\ c_plaintext = <<>>
    /\ c_record = NoRecord
    /\ c_data = NoRecord
    /\ c_password2 = <<>>
    /\ c_out = Raise("not called")

\* the processes that save at once
Procs == {1, 2}

\* the senders of the transfer
Senders == {1, 2}

\* a process that has not pressed Save
NoProc == [pc |-> "idle", master |-> <<>>, service |-> <<>>, key |-> 0,
           data |-> JList(<<>>), seen |-> 0, rec |-> NoRecord,
           status |-> "", calls |-> 0]

RaceIdle ==
    /\ procs = [p \in Procs |-> NoProc]
    /\ writes = <<>>

\* a client that connects to the port and does not speak TLS
Stray == 3

Peers == Senders \cup {Stray}

\* a receive_password call that has not been made: calls counts the calls,
\* accepted the connections sock.accept() has returned to this call, conn
\* is the peer of the last one, secured tells that its handshake completed,
\* open is the set of sockets the call holds open, reads counts its calls
\* of ssock.recv
NoReceive == [pc |-> "idle", conn |-> 0, accepted |-> 0, secured |-> FALSE,
              result |-> Raise("not called"), status |-> St(""), calls |-> 0,
              open |-> {}, reads |-> 0]

\* a share_password call that has not been made: attempts counts the calls
\* of socket.create_connection, listener tells what they found, sent is
\* what sendall has written, open the set of sockets the call holds open;
\* arrived is how many of the bytes written have reached the receiving
\* host, and segments in how many pieces
NoShare == [pc |-> "idle", payload |-> <<>>, attempts |-> 0,
            listener |-> "", sent |-> <<>>,
            result |-> Raise("not called"), status |-> St(""),
            open |-> {}, arrived |-> 0, segments |-> 0]

NetIdle ==
    /\ cert_file = 0
    /\ key_file = 0
    /\ rx = NoReceive
    /\ tx = [s \in Peers |-> NoShare]
    /\ backlog = <<>>
    /\ delivered = <<>>

\* app/ui/main_ui.py has started
MainStarted ==
    /\ program = "main_ui"
    /\ screen = Buttons
    /\ AppStart
    /\ last = NoOp
    /\ MASTER_KEY = NoKey
    /\ SECRET_KEY = NoKey

\* app/ui.py has started: on_mount has called refresh_table
LegacyStarted ==
    /\ program = "ui"
    /\ screen = {"add"}
    /\ MASTER_KEY \in {NoKey, 17}
    /\ SECRET_KEY \in (IF MASTER_KEY = NoKey THEN FernetKeys ELSE {MASTER_KEY})
    /\ \E shown \in {refresh_table(vault, SECRET_KEY)} :
         /\ app = IF IsOk(shown) THEN "running" ELSE "crashed"
         /\ table = shown.val
    /\ master = <<>>
    /\ status = St("")
    /\ confirm_state = None
    /\ last = [op |-> "on_mount", before |-> vault, rec |-> NoRecord,
               pw |-> <<>>]

VaultInit ==
    /\ vault \in StartFiles
    /\ MainStarted \/ LegacyStarted
    /\ CipherIdle
    /\ RaceIdle
    /\ NetIdle

VaultNext ==
    \/ PressSave
    \/ PressLoad
    \/ PressReset
    \/ PressClearVault
    \/ TypeMaster
    \/ handle_save_entry_killed
    \/ Restart
    \/ PressAdd
    \/ save_data_killed
    \/ ui_Restart

Spec == VaultInit /\ [][VaultNext]_vars

(***************************************************************************)
(* One process of app/ui/main_ui.py and every button that has a handler    *)
(* acting on the vault, the master password or the transfer channel; the   *)
(* process is not killed while it writes.                                  *)
(***************************************************************************)
LifecycleInit ==
    /\ vault \in {NoFile, File(<<TLB, TRB>>)}
    /\ MainStarted
    /\ CipherIdle
    /\ RaceIdle
    /\ NetIdle

LifecycleNext ==
    \/ PressSave
    \/ PressLoad
    \/ PressShare
    \/ PressReceive
    \/ PressReset
    \/ PressClearVault
    \/ TypeMaster
    \/ Restart

SpecLifecycle == LifecycleInit /\ [][LifecycleNext]_vars

(***************************************************************************)
(* The same process with the handlers that open the vault file or hold a   *)
(* confirmation: save, load, reset and clear vault.  handle_share_entry    *)
(* and handle_receive_entry never open VAULT_PATH.                         *)
(***************************************************************************)
VaultFileNext ==
    \/ PressSave
    \/ PressLoad
    \/ PressReset
    \/ PressClearVault
    \/ TypeMaster
    \/ Restart

SpecVaultFile == LifecycleInit /\ [][VaultFileNext]_vars

(***************************************************************************)
(* The confirmation workflow on the screen its handlers presuppose:        *)
(* toggle_confirm_button and handle_confirm look up a Button with id       *)
(* "confirm".  compose does not yield one, so in the application as it is  *)
(* composed every call of toggle_confirm_button raises and no press        *)
(* reaches handle_confirm.  Here that button is mounted as well, which     *)
(* lets the handlers run to their end.                                     *)
(***************************************************************************)
ConfirmInit ==
    /\ vault \in {NoFile, File(<<TLB, TRB>>)}
    /\ program = "main_ui"
    /\ screen = Buttons \cup {"confirm"}
    /\ AppStart
    /\ last = NoOp
    /\ MASTER_KEY = NoKey
    /\ SECRET_KEY = NoKey
    /\ CipherIdle
    /\ RaceIdle
    /\ NetIdle

ConfirmNext ==
    \/ PressSave
    \/ PressReset
    \/ PressClearVault
    \/ PressConfirm
    \/ TypeMaster

SpecConfirm == ConfirmInit /\ [][ConfirmNext]_vars

(***************************************************************************)
(* The record cipher on its own: one encrypt call, the stored record       *)
(* possibly altered in one bit of one field's text, one decrypt call.      *)
(***************************************************************************)
CipherInit ==
    /\ c_phase = "start"
    /\ c_password \in Passphrases
    /\ c_plaintext \in Plaintexts
    /\ c_record = NoRecord
    /\ c_data = NoRecord
    /\ c_password2 = <<>>
    /\ c_out = Raise("not called")
    /\ MainStarted
    /\ vault = NoFile
    /\ RaceIdle
    /\ NetIdle

CipherEncrypt ==
    /\ c_phase = "start"
    /\ \E salt \in Salts, nonce \in Nonces :
          c_record' = encrypt(c_password, c_plaintext, salt, nonce)
    /\ c_data' = c_record'
    /\ c_phase' = "encrypted"
    /\ UNCHANGED <<c_password, c_plaintext, c_password2, c_out>>
    /\ UNCHANGED <<appVars, sideVars>>

\* the stored text of one field with bit k of character i inverted
FlipField(data, field, i, k) ==
    JDict([data.fields EXCEPT ![field] =
              [@ EXCEPT ![i] = FlipBit(@, k)]])

CipherTamper ==
    /\ c_phase = "encrypted"
    /\ c_data = c_record
    /\ \E field \in {"salt", "nonce", "ciphertext"} :
       \E i \in 1..Len(c_record.fields[field]), k \in 0..7 :
          c_data' = FlipField(c_record, field, i, k)
    /\ UNCHANGED <<c_phase, c_password, c_plaintext, c_record,
                   c_password2, c_out>>
    /\ UNCHANGED <<appVars, sideVars>>

CipherDecrypt ==
    /\ c_phase = "encrypted"
    /\ \E p \in Passphrases :
          /\ c_data # c_record => p = c_password
          /\ c_password2' = p
          /\ c_out' = decrypt(p, c_data)
    /\ c_phase' = "decrypted"
    /\ UNCHANGED <<c_password, c_plaintext, c_record, c_data>>
    /\ UNCHANGED <<appVars, sideVars>>

CipherNext == CipherEncrypt \/ CipherTamper \/ CipherDecrypt

SpecCipher == CipherInit /\ [][CipherNext]_vars

(***************************************************************************)
(* Properties of the record cipher.                                        *)
(***************************************************************************)
DecryptedIntact == c_phase = "decrypted" /\ c_data = c_record

DecryptedAltered == c_phase = "decrypted" /\ c_data # c_record

\* the decoded bytes of a field, or the error its decoding raises
FieldBytes(data, field) == urlsafe_b64decode(data.fields[field])

SameBytes(d1, d2) ==
    \A field \in {"salt", "nonce", "ciphertext"} :
        FieldBytes(d1, field) = FieldBytes(d2, field)

\* C1: decrypt(p, encrypt(p, t)) returns exactly t for every passphrase p of
\* at least 8 characters and every plaintext t, whatever salt and nonce
\* encrypt drew.
C1_RoundTrip ==
    (DecryptedIntact /\ c_password2 = c_password
        /\ Len(c_password) >= MIN_MASTER_LEN)
    => c_out = Ok(c_plaintext)

C1_Witness ==
    /\ DecryptedIntact
    /\ c_password2 = c_password
    /\ Len(c_password) >= MIN_MASTER_LEN
    /\ c_plaintext = <<104, 233>>
    /\ c_out = Ok(c_plaintext)

\* C2: for two different passphrases p1 and p2, decrypt(p2, encrypt(p1, t))
\* raises the authentication error (InvalidTag) and returns no value.
C2_WrongKeyRejected ==
    (DecryptedIntact /\ c_password2 # c_password)
    => c_out = Raise("InvalidTag")

C2_Witness ==
    /\ DecryptedIntact
    /\ c_password = PwA
    /\ c_password2 = PwB
    /\ c_out = Raise("InvalidTag")

\* C3 as claimed: after any single-bit change of the stored salt, nonce or
\* ciphertext text, decrypt with the original passphrase fails.
C3_AnyStoredBitFlipFails ==
    (DecryptedAltered /\ c_password2 = c_password) => ~ IsOk(c_out)

\* C3 as amended: a single-bit change of the stored text that changes the
\* bytes a field decodes to makes decrypt fail, and decrypt on an altered
\* record never returns anything but the original plaintext; it succeeds
\* exactly when all three fields still decode to the original bytes.
C3_TamperDetected ==
    (DecryptedAltered /\ c_password2 = c_password)
    => /\ ~ SameBytes(c_data, c_record) => ~ IsOk(c_out)
       /\ SameBytes(c_data, c_record) => IsOk(c_out)
       /\ IsOk(c_out) => c_out = Ok(c_plaintext)

C3_Witness ==
    /\ DecryptedAltered
    /\ c_password2 = c_password
    /\ IsOk(FieldBytes(c_data, "ciphertext"))
    /\ FieldBytes(c_data, "ciphertext") # FieldBytes(c_record, "ciphertext")
    /\ c_out = Raise("InvalidTag")

(***************************************************************************)
(* The vault: what the claims say about saving, loading and clearing.      *)
(***************************************************************************)
\* a record as encrypt returns it
IsRecord(x) ==
    x.type = "dict" /\ DOMAIN x.fields = {"salt", "nonce", "ciphertext"}

\* an entry as the legacy encrypt_entry returns it
IsLegacyEntry(x) ==
    x.type = "dict" /\ DOMAIN x.fields = {"site", "username", "password"}

\* the sequence a file persists, a missing or zero-length file read as the
\* empty sequence
PersistedSequence(file) ==
    IF ~ file.exists \/ file.text = <<>> THEN Ok(JList(<<>>))
    ELSE json_load(file.text)

\* the file holds a sequence of records
ValidVault(file) ==
    \A read \in {PersistedSequence(file)} :
        /\ IsOk(read)
        /\ read.val.type = "list"
        /\ \A i \in 1..Len(read.val.elems) : IsRecord(read.val.elems[i])

\* the rows of the elements that Dec opens, in the order of elems
RowsOf(elems, Dec(_)) ==
    FoldRange(LAMBDA rows, i : IF IsOk(Dec(elems[i]))
                               THEN Append(rows, Dec(elems[i]).val)
                               ELSE rows,
              1, Len(elems), <<>>)

Failures(elems, Dec(_)) ==
    Cardinality({i \in 1..Len(elems) : ~ IsOk(Dec(elems[i]))})

\* the row handle_load_vault is to show for a record, or the failure
RowUnder(pw, record) ==
    Let(decrypt(pw, record), LAMBDA d :
    IF ~ IsOk(d) THEN d
    ELSE Let(json_loads(d.val), LAMBDA e :
         IF ~ IsOk(e) THEN e
         ELSE Ok(<<e.val.service, e.val.username, e.val.password>>)))

\* the number of failures a status reports for a vault of m elements
Reported(st, m) ==
    IF st.msg = "Vault loaded successfully." THEN 0
    ELSE IF st.msg = "Loaded vault with decryption errors." THEN st.n
    ELSE IF st.msg = "[Error] Decryption failed for all entries." THEN m
    ELSE 0 - 1

\* the statuses with which handle_save_entry rejects its inputs
InputErrors ==
    {"[Error] Service and Password are required.",
     "[Error] Master password must be at least 8 characters."}

IsError(st) ==
    st.msg \in InputErrors
              \cup {"[Error] Master password is required.",
                    "[Error] No vault found.",
                    "[Error] No vault found to clear.",
                    "[Error] Vault file is corrupted.",
                    "[Error] Decryption failed for all entries."}

\* the handler that ran last wrote a record
Appended == last.op \in {"save", "add"} /\ last.rec # NoRecord

\* C4: a successful save (or the legacy add) leaves a file that loads as
\* exactly the sequence the file held before, in its order, followed by the
\* new record; a missing file counts as the empty sequence.
C4_AppendPersists ==
    Appended
    => \A old \in {load_data(last.before)}, new \in {load_data(vault)} :
          /\ IsOk(old) /\ IsOk(new)
          /\ old.val.type = "list"
          /\ new.val = JList(Append(old.val.elems, last.rec))

C4_Witness ==
    /\ last.op = "save"
    /\ last.rec # NoRecord
    /\ last.before.exists
    /\ Len(load_data(last.before).val.elems) >= 1
    /\ load_data(vault).val.elems
         = Append(load_data(last.before).val.elems, last.rec)
    /\ status = St("Entry saved successfully.")

\* C5 as claimed: when a vault exists, pressing Clear Vault leaves the app
\* running with the clear pending and a Confirm button to press, whose
\* handler then replaces the vault with the empty sequence.
C5_ClearAwaitsConfirm ==
    (last.op = "clear_vault" /\ last.before.exists)
    => /\ app = "running"
       /\ confirm_state = Pending("clear", NoEntry)
       /\ "confirm" \in Buttons

\* C6 as claimed: a load of a vault of M records never aborts; it shows
\* exactly the records that decrypt, in vault order, and reports the number
\* of those that do not.  The legacy application loads in refresh_table.
C6_LoadNeverAborts ==
    \A read \in {load_data(vault)} :
      /\ (/\ program = "main_ui" /\ last.op = "load"
          /\ Len(last.pw) >= MIN_MASTER_LEN
          /\ vault.exists /\ ValidVault(vault) /\ IsOk(read))
         => /\ app = "running"
            /\ table = RowsOf(read.val.elems,
                              LAMBDA x : RowUnder(last.pw, x))
            /\ Reported(status, Len(read.val.elems))
                 = Failures(read.val.elems, LAMBDA x : RowUnder(last.pw, x))
      /\ (/\ program = "ui" /\ last.op \in {"on_mount", "add"}
          /\ last.op = "add" => last.rec # NoRecord
          /\ IsOk(read) /\ read.val.type = "list"
          /\ \A i \in 1..Len(read.val.elems) :
                IsLegacyEntry(read.val.elems[i]))
         => /\ app = "running"
            /\ table = RowsOf(read.val.elems,
                              LAMBDA x : decrypt_entry(SECRET_KEY, x))

\* C7 as claimed: with no vault file, a load shows the empty sequence and
\* reports no error, and a save with valid inputs leaves a vault that holds
\* exactly the one new record.
C7_MissingVaultIsEmpty ==
    /\ (last.op = "load" /\ ~ last.before.exists
          /\ Len(last.pw) >= MIN_MASTER_LEN)
       => (app = "running" /\ table = <<>> /\ ~ IsError(status))
    /\ (last.op = "on_mount" /\ ~ last.before.exists)
       => (app = "running" /\ table = <<>>)
    /\ (last.op = "save" /\ ~ last.before.exists
          /\ status.msg \notin InputErrors)
       => (last.rec # NoRecord
             /\ load_data(vault) = Ok(JList(<<last.rec>>)))
    /\ (last.op = "add" /\ ~ last.before.exists)
       => (last.rec # NoRecord
             /\ load_data(vault) = Ok(JList(<<last.rec>>)))

\* C8 as claimed: a zero-length vault file behaves like an empty array: a
\* load shows no record and reports no corruption, a save with valid
\* inputs leaves exactly the one new record.
C8_EmptyFileIsEmptyArray ==
    /\ (last.op = "load" /\ last.before = File(<<>>)
          /\ Len(last.pw) >= MIN_MASTER_LEN)
       => /\ app = "running"
          /\ table = <<>>
          /\ status.msg # "[Error] Vault file is corrupted."
    /\ (last.op = "save" /\ last.before = File(<<>>)
          /\ status.msg \notin InputErrors)
       => (last.rec # NoRecord
             /\ load_data(vault) = Ok(JList(<<last.rec>>)))

\* C9 as claimed: when the file is not a sequence of records (text that
\* does not parse, or a value that is not an array of records), a load
\* fails as a whole with the corruption error and shows nothing, and a save
\* leaves the file as it was.
C9_CorruptVaultRejected ==
    /\ (program = "main_ui" /\ last.op = "load"
          /\ Len(last.pw) >= MIN_MASTER_LEN /\ ~ ValidVault(last.before))
       => /\ app = "running"
          /\ table = <<>>
          /\ status = St("[Error] Vault file is corrupted.")
    /\ (program = "main_ui" /\ last.op = "save" /\ ~ ValidVault(last.before))
       => vault = last.before

\* C10 as claimed: after the process is killed during a save, the file
\* holds the complete old sequence or the old sequence followed by the new
\* record.
C10_CrashLeavesOldOrNew ==
    last.op = "save_killed"
    => \A old \in {PersistedSequence(last.before)},
          new \in {PersistedSequence(vault)} :
          /\ IsOk(new)
          /\ new.val \in {old.val, JList(Append(old.val.elems, last.rec))}


(***************************************************************************)
(* Two processes save against the same vault file.  A save reads the file  *)
(* (main_ui.py 1247-1253, ui.py 31) and later rewrites it from what it     *)
(* read (main_ui.py 1267-1269, ui.py 32-33); the other process may run     *)
(* between the two.                                                        *)
(***************************************************************************)
\* the entry process p saves: the two processes save different services
EntryOf(p) ==
    [service |-> IF p = 1 THEN <<103>> ELSE <<109>>,
     username |-> <<97>>, password |-> <<98, 34>>]

\* a record saved earlier, by either program
EarlierEntry == [service |-> <<122>>, username |-> <<97>>, password |-> <<98>>]

\* the vault the two processes find: none, "[]" or one earlier record
RaceStartFiles ==
    IF program = "main_ui"
    THEN {NoFile, File(<<TLB, TRB>>),
          File(json_dump(JList(<<encrypt(PwA, json_dumps(EarlierEntry),
                                         [i \in 1..SALT_LEN |-> 3 * i],
                                         [i \in 1..NONCE_LEN |-> 5 * i])>>)))}
    ELSE {NoFile, File(<<TLB, TRB>>),
          File(json_dump(JList(<<encrypt_entry(17, EarlierEntry.service,
                                               EarlierEntry.username,
                                               EarlierEntry.password)>>)))}

RaceInit ==
    /\ program \in {"main_ui", "ui"}
    /\ vault \in RaceStartFiles
    /\ MainStarted \/ LegacyStarted
    /\ CipherIdle
    /\ RaceIdle
    /\ NetIdle

\* the list a process writes back: the one it read, with the record appended
\* in memory; the file is not read again
data_reread(p) == ReadVault.val

data_to_write(p) == procs[p].data

\* handle_save_entry up to the end of its read of the vault
save_read(p) ==
    /\ program = "main_ui"
    /\ procs[p].pc = "idle"
    /\ \E m \in {PwA, PwB, PwShort} : \E read \in {ReadVault} :
       procs' = [procs EXCEPT ![p] =
         IF Len(m) < MIN_MASTER_LEN THEN
            [@ EXCEPT !.pc = "done", !.master = m,
                !.status = "[Error] Master password must be at least 8 characters."]
         ELSE IF ~ IsOk(read) THEN
            [@ EXCEPT !.pc = "done", !.master = m,
                      !.status = "[Error] Vault file is corrupted."]
         ELSE IF ~ IsOk(Iterate(read.val)) \/ read.val.type # "list" THEN
            [@ EXCEPT !.pc = "crashed", !.master = m]
         ELSE IF check_service_exists(EntryOf(p).service, read.val.elems, m)
         THEN [@ EXCEPT !.pc = "crashed", !.master = m]
         ELSE [@ EXCEPT !.pc = "read", !.master = m, !.data = read.val,
                        !.seen = Len(writes)]]
    /\ UNCHANGED <<writes, appVars, cipherVars, netVars>>

\* the rest of handle_save_entry: encrypt, append, rewrite the file, report
save_write(p) ==
    /\ program = "main_ui"
    /\ procs[p].pc = "read"
    /\ \E salt \in AppSalts, nonce \in AppNonces :
       \E encrypted \in {encrypt(procs[p].master, json_dumps(EntryOf(p)),
                                 salt, nonce)} :
          /\ vault' = File(json_dump(list_append(data_to_write(p), encrypted)))
          /\ procs' = [procs EXCEPT ![p] =
                          [@ EXCEPT !.pc = "done", !.rec = encrypted,
                                    !.status = "Entry saved successfully."]]
    /\ writes' = Append(writes, p)
    /\ UNCHANGED <<app, master, status, table, confirm_state, last,
                   processVars, cipherVars, netVars>>

\* ui.py on_button_pressed up to the end of load_data()
add_read(p) ==
    /\ program = "ui"
    /\ procs[p].pc = "idle"
    /\ \E key \in (IF MASTER_KEY = NoKey THEN FernetKeys ELSE {MASTER_KEY}) :
       \E read \in {load_data(vault)} :
       procs' = [procs EXCEPT ![p] =
         IF ~ IsOk(read) \/ read.val.type # "list"
         THEN [@ EXCEPT !.pc = "crashed", !.key = key]
         ELSE [@ EXCEPT !.pc = "read", !.key = key, !.data = read.val,
                        !.seen = Len(writes),
                        !.rec = encrypt_entry(key, EntryOf(p).service,
                                              EntryOf(p).username,
                                              EntryOf(p).password)]]
    /\ UNCHANGED <<writes, appVars, cipherVars, netVars>>

\* data.append(encrypted); save_data(data)
add_write(p) ==
    /\ program = "ui"
    /\ procs[p].pc = "read"
    /\ vault' = save_data(list_append(data_to_write(p), procs[p].rec))
    /\ procs' = [procs EXCEPT ![p] = [@ EXCEPT !.pc = "written"]]
    /\ writes' = Append(writes, p)
    /\ UNCHANGED <<app, master, status, table, confirm_state, last,
                   processVars, cipherVars, netVars>>

\* self.refresh_table(), which ends the save: the table shows the file, or
\* the exception ends the app
add_refresh(p) ==
    /\ program = "ui"
    /\ procs[p].pc = "written"
    /\ \E shown \in {refresh_table(vault, procs[p].key)} :
          procs' = [procs EXCEPT ![p] =
              IF IsOk(shown) THEN [@ EXCEPT !.pc = "done", !.status = "shown"]
              ELSE [@ EXCEPT !.pc = "crashed"]]
    /\ UNCHANGED <<writes, appVars, cipherVars, netVars>>

RaceNext ==
    \E p \in Procs :
        \/ save_read(p)
        \/ save_write(p)
        \/ add_read(p)
        \/ add_write(p)
        \/ add_refresh(p)

SpecRace == RaceInit /\ [][RaceNext]_vars

\* the elements of the vault file
VaultElems == json_load(vault.text).val.elems

\* the number of elements of list s equal to x
Count(s, x) == Cardinality({i \in 1..Len(s) : s[i] = x})

\* both processes have rewritten the file, the second from a read that
\* preceded the first one's write
StaleSecondWrite ==
    /\ Len(writes) = 2
    /\ procs[writes[2]].seen = 0

\* C11: when two processes save different records and the second writer read
\* the vault before the first one wrote, the file ends as what the second
\* writer read plus its own record; the first writer's record is not in it,
\* and in app/ui/main_ui.py both processes have reported "Entry saved
\* successfully."
C11_LostUpdate ==
    StaleSecondWrite =>
        /\ VaultElems = Append(procs[writes[2]].data.elems,
                               procs[writes[2]].rec)
        /\ Count(VaultElems, procs[writes[1]].rec) = 0
        /\ Count(VaultElems, procs[writes[2]].rec) = 1
        /\ program = "main_ui" =>
              \A p \in Procs : procs[p].status = "Entry saved successfully."

C11_Witness ==
    /\ StaleSecondWrite
    /\ program = "main_ui"
    /\ \A p \in Procs : procs[p].status = "Entry saved successfully."
    /\ procs[writes[1]].rec # NoRecord
    /\ Count(VaultElems, procs[writes[1]].rec) = 0
    /\ Len(VaultElems) = 2

(***************************************************************************)
(* The life of a persisted record in one process.                          *)
(***************************************************************************)
\* the elements a vault file persists, none when it cannot be read as a list
PersistedElems(file) ==
    Let(PersistedSequence(file), LAMBDA read :
        IF IsOk(read) /\ read.val.type = "list" THEN read.val.elems
        ELSE <<>>)

\* C12: in one process, every step of save, load, share, receive, reset,
\* clear request or confirm either leaves the vault file as it is, or is a
\* save that appends its record after the persisted ones, which keep their
\* content and order, or is a confirmed clear, which removes all of them;
\* load, share, receive, reset and the clear request leave the file as it is.
C12_RecordLifecycle ==
    [][ \/ vault' = vault
        \/ /\ last'.op = "save"
           /\ last'.rec # NoRecord
           /\ PersistedElems(vault') =
                  Append(PersistedElems(vault), last'.rec)
        \/ /\ last'.op = "confirm"
           /\ confirm_state.action = "clear"
           /\ PersistedElems(vault') = <<>> ]_vars

\* a save has appended to a vault that held a record, and a load, share or
\* receive that followed has left both in place
C12_Witness ==
    /\ last.op \in {"load", "share", "receive"}
    /\ vault = last.before
    /\ Len(PersistedElems(vault)) = 2
    /\ PersistedElems(vault)[1] # PersistedElems(vault)[2]

C14_EncryptRejectsShortPassphrase ==
    (c_phase # "start" /\ Len(c_password) < MIN_MASTER_LEN)
        => c_record = NoRecord

(***************************************************************************)
(* The transfer: one process calls receive_password (through               *)
(* handle_receive_entry), two call share_password (through                 *)
(* handle_share_entry), all on one host, and one client connects to the    *)
(* port without speaking TLS.  The steps are the blocking calls of         *)
(* p2p.py: create_connection, accept, the two wrap_socket, sendall, recv.  *)
(***************************************************************************)
\* the largest number of receive_password calls in the model
MaxReceives == 2

\* the port of every call: #peer_port is left empty
Port == validate_port(peer_port(<<>>)).val

\* the entry whose json.dumps text has n characters: service "g", username
\* "a" and a password of as many "b" as it takes
EntryOfSize(n) ==
    [service |-> <<103>>, username |-> <<97>>,
     password |->
        [i \in 1..(n - Len(json_dumps([service |-> <<103>>,
                                       username |-> <<97>>,
                                       password |-> <<>>]))) |-> 98]]

\* the entries the senders share: payloads of 50, 4096 and 5000 bytes
ShareEntries == {EntryOfSize(50), EntryOfSize(RECV_MAX), EntryOfSize(5000)}

\* the identity files the processes find: none, a pair, a certificate
\* without its key, a certificate and the key of another
IdentityFiles == {<<0, 0>>, <<1, 1>>, <<1, 0>>, <<1, 2>>}

P2PInit ==
    /\ MainStarted
    /\ vault = NoFile
    /\ CipherIdle
    /\ RaceIdle
    /\ \E id \in IdentityFiles : cert_file = id[1] /\ key_file = id[2]
    /\ rx = NoReceive
    /\ tx = [s \in Peers |-> NoShare]
    /\ backlog = <<>>
    /\ delivered = <<>>

\* a listener that is never closed, for comparison
listener_never_closed(pc) == pc # "idle"

\* the listening socket exists from bind to the end of the with block
listener_open(pc) == pc \in {"listening", "handshaking", "reading"}

\* socket.create_connection((host, port)): refused without a listener,
\* established and queued when the listener's queue has room, timed out
\* when the queue stays full
create_connection(open, queued) ==
    IF ~ open THEN Raise("ConnectionRefusedError")
    ELSE IF queued < BACKLOG THEN Ok("queued")
    ELSE Raise("TimeoutError")

\* a with block that closes nothing when it is left, for comparison
with_exit_leaking(open, s) == open

\* leaving the with block of socket s, by return or by exception, closes s
with_exit(open, s) == open \ {s}

\* context.wrap_socket(s) completes: the SSLSocket takes over the
\* descriptor of s, which is detached
wrap_socket_done(open, s) == (open \ {s}) \cup {"ssock"}

\* context.wrap_socket(s) raises: the SSLSocket under construction has
\* taken over the descriptor of s and closes it before the error leaves
wrap_socket_raised(open, s) == open \ {s}

\* a share_password call that ended with result, leaving both with blocks
ShareEnded(t, result) ==
    [t EXCEPT !.pc = "done", !.result = result,
              !.status = share_status(result, Port),
              !.open = with_exit(with_exit(@, "ssock"), "sock")]

\* the with block of receive_password is left: the listening socket is
\* closed and the connections still queued on it are reset
CloseListener(q) ==
    [s \in Peers |->
        IF \E i \in 1..Len(q) : q[i] = s
        THEN ShareEnded([tx[s] EXCEPT !.open = wrap_socket_raised(@, "sock")],
                        Raise("ConnectionResetError"))
        ELSE tx[s]]

\* a receive_password call that ended with result, leaving both with blocks
ReceiveEnded(r, result) ==
    [r EXCEPT !.pc = "done", !.result = result,
              !.status = receive_status(result),
              !.open = with_exit(with_exit(@, "ssock"), "sock")]

\* handle_share_entry up to share_password's create_self_signed_cert()
share_start(s) ==
    /\ tx[s].pc = "idle"
    /\ \E entry \in ShareEntries, k \in KeyIds :
         /\ \E id \in {create_self_signed_cert(cert_file, key_file, k)} :
               /\ cert_file' = id.cert
               /\ key_file' = id.key
         /\ tx' = [tx EXCEPT ![s] =
                      [@ EXCEPT !.pc = "connecting",
                                !.payload = json_dumps(entry),
                                !.status = St("Sharing password... (please wait)")]]
    /\ UNCHANGED <<rx, backlog, delivered, appVars, cipherVars, raceVars>>

\* socket.create_connection((host, port))
share_connect(s) ==
    /\ tx[s].pc = "connecting"
    /\ \E c \in {create_connection(listener_open(rx.pc), Len(backlog))} :
       \E t \in {[tx[s] EXCEPT !.attempts = @ + 1,
                               !.listener = IF listener_open(rx.pc)
                                            THEN "open" ELSE "closed"]} :
         IF IsOk(c)
         THEN /\ backlog' = Append(backlog, s)
              /\ tx' = [tx EXCEPT ![s] = [t EXCEPT !.pc = "connected",
                                                   !.open = {"sock"}]]
         ELSE /\ tx' = [tx EXCEPT ![s] = ShareEnded(t, c)]
              /\ UNCHANGED backlog
    /\ UNCHANGED <<cert_file, key_file, rx, delivered, appVars, cipherVars,
                   raceVars>>

\* ssock.sendall(data.encode()), after which the with blocks close the
\* connection and share_password returns
share_send(s) ==
    /\ tx[s].pc = "secured"
    /\ tx' = [tx EXCEPT ![s] =
                 ShareEnded([@ EXCEPT !.sent = str_encode(tx[s].payload)],
                            Ok(<<>>))]
    /\ UNCHANGED <<cert_file, key_file, rx, backlog, delivered, appVars,
                   cipherVars, raceVars>>

\* the client that does not speak TLS connects
stray_connect ==
    /\ tx[Stray].pc = "idle"
    /\ IsOk(create_connection(listener_open(rx.pc), Len(backlog)))
    /\ backlog' = Append(backlog, Stray)
    /\ tx' = [tx EXCEPT ![Stray] = [@ EXCEPT !.pc = "connected",
                                             !.attempts = @ + 1,
                                             !.listener = "open"]]
    /\ UNCHANGED <<cert_file, key_file, rx, delivered, appVars, cipherVars,
                   raceVars>>

\* handle_receive_entry up to sock.listen(1)
receive_start ==
    /\ rx.pc \in {"idle", "done"}
    /\ rx.calls < MaxReceives
    /\ \E k \in KeyIds :
       \E id \in {create_self_signed_cert(cert_file, key_file, k)} :
       \E r \in {[NoReceive EXCEPT !.calls = rx.calls + 1,
                     !.status = St("Waiting to receive password... (please wait)")]} :
          /\ cert_file' = id.cert
          /\ key_file' = id.key
          /\ rx' = IF IsOk(load_cert_chain(id.cert, id.key))
                   THEN [r EXCEPT !.pc = "listening", !.open = {"sock"}]
                   ELSE ReceiveEnded(r, Raise("SSLError"))
    /\ UNCHANGED <<tx, backlog, delivered, appVars, cipherVars, raceVars>>

\* conn, addr = sock.accept()
receive_accept ==
    /\ rx.pc = "listening"
    /\ backlog # <<>>
    /\ rx' = [rx EXCEPT !.pc = "handshaking", !.conn = Head(backlog),
                        !.accepted = @ + 1, !.open = @ \cup {"conn"}]
    /\ backlog' = Tail(backlog)
    /\ UNCHANGED <<cert_file, key_file, tx, delivered, appVars, cipherVars,
                   raceVars>>

\* context.wrap_socket on both ends of the accepted connection: the
\* handshake completes
wrap_socket ==
    /\ rx.pc = "handshaking"
    /\ rx.conn \in Senders
    /\ rx' = [rx EXCEPT !.pc = "reading", !.secured = TRUE,
                        !.open = wrap_socket_done(@, "conn")]
    /\ tx' = [tx EXCEPT ![rx.conn] =
                 [@ EXCEPT !.pc = "secured",
                           !.open = wrap_socket_done(@, "sock")]]
    /\ UNCHANGED <<cert_file, key_file, backlog, delivered, appVars,
                   cipherVars, raceVars>>

\* context.wrap_socket(conn, server_side=True) when the peer does not speak
\* TLS: ssl.SSLError leaves receive_password through both with blocks
wrap_socket_fails ==
    /\ rx.pc = "handshaking"
    /\ rx.conn = Stray
    /\ rx' = ReceiveEnded([rx EXCEPT !.open = wrap_socket_raised(@, "conn")],
                          Raise("SSLError"))
    /\ tx' = [CloseListener(backlog) EXCEPT ![Stray] = [@ EXCEPT !.pc = "done"]]
    /\ backlog' = <<>>
    /\ UNCHANGED <<cert_file, key_file, delivered, appVars, cipherVars,
                   raceVars>>

\* a read that returns as soon as one byte has arrived, for comparison
read_ready_on_first_byte(arrived, length) == arrived > 0

\* ssock.recv blocks in the TLS layer until a whole record has arrived and
\* its tag is verified; length is the length of the record
SSL_read_ready(arrived, length) == arrived >= length

\* the places where the network may cut the bytes of one write: it delivers
\* them whole, or in two segments
SegmentCuts(length) == {(length + 1) \div 2, length}

\* the next segment of what sender s wrote reaches the receiving host
segment_arrives(s) ==
    /\ tx[s].arrived < Len(tx[s].sent)
    /\ \E n \in SegmentCuts(Len(tx[s].sent)) :
         /\ n > tx[s].arrived
         /\ tx' = [tx EXCEPT ![s] = [@ EXCEPT !.arrived = n,
                                              !.segments = @ + 1]]
    /\ UNCHANGED <<cert_file, key_file, rx, backlog, delivered, appVars,
                   cipherVars, raceVars>>

\* return ssock.recv(4096).decode(): the one read of the call.  sendall
\* wrote the payload as one TLS record (the payloads here are shorter than
\* the 16384 bytes a record holds)
receive_recv ==
    /\ rx.pc = "reading"
    /\ tx[rx.conn].pc = "done"
    /\ SSL_read_ready(tx[rx.conn].arrived, Len(tx[rx.conn].sent))
    /\ \E result \in {recv_decode(SubSeq(tx[rx.conn].sent, 1,
                                         tx[rx.conn].arrived))} :
         /\ rx' = ReceiveEnded([rx EXCEPT !.reads = @ + 1], result)
         /\ delivered' = IF IsOk(result) THEN Append(delivered, result.val)
                         ELSE delivered
    /\ tx' = CloseListener(backlog)
    /\ backlog' = <<>>
    /\ UNCHANGED <<cert_file, key_file, appVars, cipherVars, raceVars>>

P2PNext ==
    \/ \E s \in Senders : share_start(s) \/ share_connect(s) \/ share_send(s)
    \/ \E s \in Senders : segment_arrives(s)
    \/ stray_connect
    \/ receive_start
    \/ receive_accept
    \/ wrap_socket
    \/ wrap_socket_fails
    \/ receive_recv

SpecP2P == P2PInit /\ [][P2PNext]_vars

(***************************************************************************)
(* The identity files and the transfer: what the claims say.               *)
(***************************************************************************)
\* the number of create_self_signed_cert calls made so far: one by every
\* receive_password call and one by every share_password call
IdentityCalls == rx.calls + Cardinality({s \in Senders : tx[s].pc # "idle"})

\* C15: once cert.pem and key.pem both exist, no call of
\* create_self_signed_cert, and no other step, changes either file.
C15_IdentityKept ==
    [][ (cert_file # 0 /\ key_file # 0)
            => (cert_file' = cert_file /\ key_file' = key_file) ]_vars

\* three calls have been made and the files exist
C15_Witness ==
    /\ IdentityCalls = 3
    /\ cert_file # 0
    /\ key_file # 0

\* C16: a receive_password call that has accepted a connection returns, with
\* data or with an error, only after a connection has completed its
\* handshake.
C16_ReturnsOnlyAfterHandshake ==
    (rx.pc = "done" /\ rx.accepted > 0) => rx.secured

\* the receiver has returned what sender s wrote on a secured connection
ReceivedFrom(s) ==
    /\ rx.pc = "done"
    /\ rx.secured
    /\ rx.conn = s

\* C17: when the receiver has taken the connection of a sender whose payload
\* has at most 4096 bytes, the send has ended without error, reporting the
\* payload shared, and receive has returned the payload, byte for byte.
C17_HappyPath ==
    \A s \in Senders :
        (ReceivedFrom(s) /\ Len(tx[s].sent) <= RECV_MAX) =>
            /\ tx[s].result = Ok(<<>>)
            /\ tx[s].status = [msg |-> "Password shared to 127.0.0.1:",
                               n |-> Port]
            /\ rx.result = Ok(tx[s].payload)
            /\ str_encode(rx.result.val) = tx[s].sent
            /\ rx.status = St("Password received successfully.")

\* a payload of exactly 4096 bytes has been received whole
C17_Witness ==
    /\ ReceivedFrom(1)
    /\ Len(tx[1].sent) = RECV_MAX
    /\ rx.result = Ok(tx[1].payload)

\* C18: when the receiver has taken the connection of a sender whose payload
\* has more than 4096 bytes, receive has returned exactly the first 4096
\* bytes, and neither share_password nor receive_password has raised.
C18_Truncation ==
    \A s \in Senders :
        (ReceivedFrom(s) /\ Len(tx[s].sent) > RECV_MAX) =>
            /\ tx[s].result = Ok(<<>>)
            /\ IsOk(rx.result)
            /\ str_encode(rx.result.val) = SubSeq(tx[s].sent, 1, RECV_MAX)
            /\ delivered[Len(delivered)] = rx.result.val

\* a payload of 5000 bytes has been received as its first 4096
C18_Witness ==
    /\ ReceivedFrom(1)
    /\ Len(tx[1].sent) = 5000
    /\ Len(rx.result.val) = RECV_MAX
    /\ rx.status = St("[Error] Invalid data received.")

\* C19: a share_password call whose connection attempt finds no listener
\* ends with ConnectionRefusedError after that one attempt, has written
\* nothing, and handle_share_entry reports the refusal.
C19_Refused ==
    \A s \in Senders :
        tx[s].listener = "closed" =>
            /\ tx[s].pc = "done"
            /\ tx[s].result = Raise("ConnectionRefusedError")
            /\ tx[s].attempts = 1
            /\ tx[s].sent = <<>>
            /\ tx[s].status = [msg |-> "[Error] Connection refused by 127.0.0.1:",
                               n |-> Port]

\* sender 1 found no listener and was refused; the receiver served sender 2
C19_Witness ==
    /\ tx[1].listener = "closed"
    /\ tx[1].result = Raise("ConnectionRefusedError")
    /\ tx[1].attempts = 1
    /\ ReceivedFrom(2)

\* C20: a receive_password call accepts at most one connection; once it has
\* returned nothing is queued on its listener; the payloads delivered and
\* the senders that report success are at most as many as the calls made.
C20_OneExchangePerReceive ==
    /\ rx.accepted <= 1
    /\ rx.pc \in {"idle", "done"} => backlog = <<>>
    /\ Len(delivered) <= rx.calls
    /\ Cardinality({s \in Senders : IsOk(tx[s].result)}) <= rx.calls

\* one receive call, two senders: the first delivered its payload, the
\* second was queued on the listener and reset when the call returned
C20_Witness ==
    /\ rx.calls = 1
    /\ ReceivedFrom(1)
    /\ Len(delivered) = 1
    /\ tx[2].listener = "open"
    /\ tx[2].result = Raise("ConnectionResetError")

C22_SenderLeavesIdentityFiles ==
    [][ (rx' = rx) => (cert_file' = cert_file /\ key_file' = key_file) ]_vars

(***************************************************************************)
(* What the vault file of one process holds.                               *)
(***************************************************************************)
\* needle occurs in hay as a run of consecutive elements
Contains(hay, needle) ==
    \E i \in 1..(Len(hay) - Len(needle) + 1) :
        /\ hay[i] = needle[1]
        /\ SubSeq(hay, i, i + Len(needle) - 1) = needle

\* x, whose fields decode to salt, nonce and ct, is the record of one
\* encrypt call under pw, and neither pw, nor the key derived from it, nor
\* the plaintext occurs in a field of x, as stored or decoded
EncryptedUnder(pw, x, salt, nonce, ct) ==
    \E key \in {derive_key(pw, salt)} :
    \E opened \in {AESGCM_decrypt(key, nonce, ct)} :
    /\ IsOk(opened)
    /\ \E plaintext \in {bytes_decode(opened.val)} :
         /\ IsOk(plaintext)
         /\ x = encrypt(pw, plaintext.val, salt, nonce)
         /\ \A secret \in {str_encode(pw), key, opened.val} :
            \A hay \in {x.fields.salt, x.fields.nonce, x.fields.ciphertext,
                        salt, nonce, ct} :
                ~ Contains(hay, secret)

\* x is a record of exactly three fields that encrypt produced under one of
\* the master passwords pws
IsEncryptedTriple(x, pws) ==
    /\ IsRecord(x)
    /\ \E salt \in {FieldBytes(x, "salt")}, nonce \in {FieldBytes(x, "nonce")},
          ct \in {FieldBytes(x, "ciphertext")} :
         /\ IsOk(salt) /\ IsOk(nonce) /\ IsOk(ct)
         /\ Len(salt.val) = SALT_LEN
         /\ Len(nonce.val) = NONCE_LEN
         /\ \E pw \in pws :
                EncryptedUnder(pw, x, salt.val, nonce.val, ct.val)

\* C23: in every state of a process that started without a vault or with an
\* empty one and saves, loads, resets and clears, the vault file parses as a list whose every element is a
\* record of exactly salt, nonce and ciphertext, the output of one encrypt
\* call; the master password, the derived key and the plaintext entry occur
\* in no field of it.
C23_OnlyEncryptedTriples ==
    \E read \in {PersistedSequence(vault)} :
        /\ IsOk(read)
        /\ read.val.type = "list"
        /\ \A i \in 1..Len(read.val.elems) :
               IsEncryptedTriple(read.val.elems[i], {PwA, PwB})

\* the vault holds two records, saved under two master passwords
C23_Witness ==
    /\ Len(PersistedElems(vault)) = 2
    /\ IsEncryptedTriple(PersistedElems(vault)[1], {PwA})
    /\ IsEncryptedTriple(PersistedElems(vault)[2], {PwB})

IsDuplicate(service) ==
    \E m \in {get_master}, read \in {ReadVault} :
        /\ ~ master_too_short(m)
        /\ IsOk(read)
        /\ read.val.type = "list"
        /\ check_service_exists(service, read.val.elems, m)

\* C26: a press of Save for a service that some record of the vault holds
\* under the supplied master password writes nothing: it leaves the vault as
\* it is and the application running with the ('save', entry) confirmation
\* pending.
C26_DuplicateSaveIsPending ==
    [][ \A service \in Services, username \in Usernames,
           password \in Passwords :
          ( /\ on_button_pressed("save")
            /\ IsDuplicate(service)
            /\ handle_save_entry(service, username, password) )
          => /\ vault' = vault
             /\ app' = "running"
             /\ confirm_state' =
                    Pending("save", [service |-> service,
                                     username |-> username,
                                     password |-> password]) ]_vars

\* the positions of the records of elems that decrypt under m to an entry
\* of this service
RecordsOf(service, elems, m) ==
    {i \in 1..Len(elems) :
        \E e \in {decrypt_entry_of(m, elems[i])} :
            IsOk(e) /\ e.val.service = service}

C28_AllFailedNeedsRecords ==
    (last.op = "load" /\ app = "running" /\ vault.exists
        /\ Len(last.pw) >= MIN_MASTER_LEN)
    => \E read \in {json_load(vault.text)} :
        IsOk(read) /\ read.val.type = "list" =>
          /\ status = St("[Error] Decryption failed for all entries.")
               => /\ Len(read.val.elems) >= 1
                  /\ \A i \in 1..Len(read.val.elems) :
                        ~ IsOk(RowUnder(last.pw, read.val.elems[i]))
          /\ Len(read.val.elems) = 0
               => status = St("Vault loaded successfully.")

MaxProvisions == 2

\* the key rsa.generate_private_key returns to process p in its n-th call:
\* a new one every time
FreshKey(p, n) == Cardinality(KeyIds) + MaxProvisions * (p - 1) + n

\* the identity files the processes find: none, a matching pair, a
\* certificate without its key, a key without its certificate
ProvisionStartFiles == {<<0, 0>>, <<1, 1>>, <<1, 0>>, <<0, 1>>}

ProvisionInit ==
    /\ MainStarted
    /\ vault = NoFile
    /\ CipherIdle
    /\ RaceIdle
    /\ \E id \in ProvisionStartFiles : cert_file = id[1] /\ key_file = id[2]
    /\ rx = NoReceive
    /\ tx = [s \in Peers |-> NoShare]
    /\ backlog = <<>>
    /\ delivered = <<>>

\* rsa.generate_private_key and the building of the certificate, which
\* touch no file
generate_private_key(p) ==
    [procs[p] EXCEPT !.pc = "write_cert", !.calls = @ + 1,
                     !.key = FreshKey(p, procs[p].calls + 1)]

\* the call begins: CERT_FILE.exists(), the left operand of the test
cert_exists(p) ==
    /\ procs[p].pc \in {"idle", "done"}
    /\ procs[p].calls < MaxProvisions
    /\ procs' = [procs EXCEPT ![p] =
                    IF cert_file # 0 THEN [@ EXCEPT !.pc = "key_exists"]
                    ELSE generate_private_key(p)]
    /\ UNCHANGED <<writes, netVars, appVars, cipherVars>>

\* KEY_FILE.exists(), the right operand: return when both files exist
key_exists(p) ==
    /\ procs[p].pc = "key_exists"
    /\ procs' = [procs EXCEPT ![p] =
                    IF key_file # 0
                    THEN [@ EXCEPT !.pc = "done", !.calls = @ + 1]
                    ELSE generate_private_key(p)]
    /\ UNCHANGED <<writes, netVars, appVars, cipherVars>>

\* with open(CERT_FILE, "wb") as f: f.write(cert.public_bytes(...))
write_cert(p) ==
    /\ procs[p].pc = "write_cert"
    /\ cert_file' = procs[p].key
    /\ procs' = [procs EXCEPT ![p] = [@ EXCEPT !.pc = "write_key"]]
    /\ writes' = Append(writes, p)
    /\ UNCHANGED <<key_file, rx, tx, backlog, delivered, appVars, cipherVars>>

\* with open(KEY_FILE, "wb") as f: f.write(key.private_bytes(...)), and the
\* call returns
write_key(p) ==
    /\ procs[p].pc = "write_key"
    /\ key_file' = procs[p].key
    /\ procs' = [procs EXCEPT ![p] = [@ EXCEPT !.pc = "done"]]
    /\ writes' = Append(writes, p)
    /\ UNCHANGED <<cert_file, rx, tx, backlog, delivered, appVars, cipherVars>>

ProvisionNext ==
    \E p \in Procs :
        \/ cert_exists(p)
        \/ key_exists(p)
        \/ write_cert(p)
        \/ write_key(p)

SpecProvision == ProvisionInit /\ [][ProvisionNext]_vars

\* C30: whenever no call of create_self_signed_cert is running and one has
\* returned, cert.pem and key.pem hold the certificate and the private key
\* of one generated pair, whether the call found none, one or both of the
\* files, and whether one process or two provisioned.
C30_MatchingPair ==
    (/\ \A p \in Procs : procs[p].pc \in {"idle", "done"}
     /\ \E p \in Procs : procs[p].pc = "done")
    => /\ cert_file # 0
       /\ key_file = cert_file

====
